---- MODULE Spec2Model ----
(***************************************************************************)
(* Kiro gateway: the two request handlers of kiro/routes_openai.py         *)
(* (chat_completions and responses), their streaming wrappers, and the     *)
(* conversation state store of kiro/store_responses.py.                    *)
(*                                                                         *)
(* One record per request holds the handler's local variables and what the *)
(* client and the collaborators (upstream connection, history sink, debug  *)
(* logger) have seen of it.  A streaming wrapper is an async generator: it *)
(* is created, then driven by the consumer, who either asks for the next   *)
(* frame or closes it; the relay (stream_kiro_to_openai) feeds it while it *)
(* runs.                                                                   *)
(*                                                                         *)
(* Spec follows one request, on either endpoint, through every input and   *)
(* outcome.  SpecConcurrent runs several /v1/responses requests at once.   *)
(* SpecCalls has several requests of both endpoints with their upstream    *)
(* calls in flight.  SpecRepair runs the truncation repair of              *)
(* chat_completions over every message list against every registry.       *)
(* SpecStore drives the conversation state store on its own, with a clock. *)
(***************************************************************************)
EXTENDS Integers, Sequences, FiniteSets, TLC

VARIABLES
    req,        \* per request: the handler's locals and its observable effects
    states,     \* ResponseStateStore._states, in iteration order
    nextId,     \* the next value uuid.uuid4() hands out
    createLog,  \* the requests that called response_store.create, in call order
    truncations, \* the truncation registry (kiro.truncation_state)
    repair,     \* a message list under truncation repair: the list received,
                \* what each run of the repair loop made of it, and whether
                \* an exception left the loop
    clock,      \* datetime.now(timezone.utc)
    disk,       \* response_states.json
    log,        \* the latest call made on the store directly, with what it
                \* returned
    up,         \* the process is running and has constructed its store
    tasks,      \* per task of the event loop: the store call it is in, the
                \* statement it has reached, and the ids its calls returned
    history,    \* RequestHistory._records, newest first, and
                \* request_history.json
    auth,       \* ApiKeyManager._keys, and per request what it presented to
                \* verify_api_key and whether it passed
    conversation, \* a message list handed to generate_conversation_id and
                \* the id returned for it
    taskStore   \* TaskStore._tasks, in insertion order

vars ==
    <<req, states, nextId, createLog, truncations, repair, clock, disk, log, up,
      tasks, history, auth, conversation, taskStore>>

\* ------------------------------------------------------------------ bounds
\* Requests of one run; they arrive in the order of their numbers.
Reqs == {1, 2}
\* Chunks the relay delivers on one stream before DONE or a failure.
MaxChunks == 2
\* Messages of a chat request that goes through the truncation repair.
MaxLen == 2
\* Times the repair loop is run over a message list and its own output.
MaxRuns == 2
\* Records created by calls made on the store directly.
MaxCalls == 1
\* Snapshot writes that fail in a row.
MaxLost == 1
\* The latest reading of the clock, in days after the first start.
MaxClock == 1

\* --------------------------------------------------------------- constants
NoId == -1          \* previous_response_id absent
InvalidId == 0      \* an id the store never issued ("resp_invalid_id_12345")
SeedId == 1         \* a record loaded from response_states.json at startup

Endpoints == {"chat", "responses"}
UpstreamStatuses == {200, 204, 429, 503}
\* What request_with_retry raises when it gives up: an HTTPException with one
\* of these statuses, or another exception ("other").
GatewayStatuses == {502, 504}
\* The error body of a non-200 answer: aread() fails, the body is no JSON,
\* the body is JSON that makes enhance_kiro_error raise KeyError, the body is
\* JSON that enhance_kiro_error turns into a user message.
ErrorBodies == {"unreadable", "text", "json_keyerror", "json"}

Msg(role, content) == [role |-> role, content |-> content]
\* The record present in the store at startup, when there is one.
SeedMessages == <<Msg("user", <<"q0">>), Msg("assistant", <<"a0">>)>>
\* request_data.input of request r, in the Codex format.
RequestInput(r) ==
    <<[type |-> "message", role |-> "user", content |-> <<"q", ToString(r)>>]>>
\* message_dict = {"role": msg.role, "content": msg.content}
ToMessageDict(m) == Msg(m.role, m.content)
\* The new turn of request r, as appended to `messages`.
InputOf(r) ==
    [i \in 1..Len(RequestInput(r)) |-> ToMessageDict(RequestInput(r)[i])]

AssembleMessages_InputFirst(loaded, input) == input \o loaded

\* messages = []; messages.extend(previous messages); messages.append(...)
AssembleMessages(loaded, input) == loaded \o input
\* The message collect_stream_response assembles.
CollectedMessage == Msg("assistant", <<"a">>)

\* A chunk of the relay: whether it has choices, its delta.content (a
\* sequence of text fragments, empty when absent) and its tool-call argument
\* fragments.
Chunk(choices, content, tools) ==
    [choices |-> choices, content |-> content, tool_calls |-> tools]
ChunkKinds ==
    { Chunk(FALSE, <<>>, <<>>),
      Chunk(TRUE, <<"a">>, <<>>),
      Chunk(TRUE, <<"b">>, <<"x">>),
      Chunk(TRUE, <<>>, <<"y">>) }

\* A frame sent to the client.
Frame(type, id, delta) == [type |-> type, id |-> id, delta |-> delta]

\* What the client gets as the HTTP response: a JSON body ("json"), the
\* OpenAI error envelope ("json_error"), the framework's answer to a raised
\* HTTPException ("http_exception") or a StreamingResponse ("stream").
Resp(kind, status, code, id, message) ==
    [kind |-> kind, status |-> status, code |-> code, id |-> id,
     message |-> message]
NoResp == Resp("none", 0, 0, NoId, "")

InternalError == 500
Ok == 200
NotFound == 404
NoConn == -1        \* no KiroHttpClient constructed yet
SharedConn == 0     \* request.app.state.http_client

NotFoundDetail_WithoutId(id) == "Previous response ID not found"

\* detail of the HTTPException raised for an unknown previous_response_id.
NotFoundDetail(id) == "Previous response ID not found: " \o ToString(id)

\* ------------------------------------------------------------ the API keys
\* Texts are sequences of characters where the code slices them.
ProxyApiKey == <<"p", "k">>          \* PROXY_API_KEY
KeyA == <<"s", "k", "-", "a">>
KeyB == <<"s", "k", "-", "b">>
Bearer == <<"B", "e", "a", "r", "e", "r", " ">>
Unauthorized == 401

\* The Authorization header as APIKeyHeader(auto_error=False) hands it over:
\* None when the request has none.
NoHeader == [present |-> FALSE, text |-> <<>>]
Header(text) == [present |-> TRUE, text |-> text]

\* str.startswith
StartsWith(text, prefix) ==
    Len(text) >= Len(prefix) /\ SubSeq(text, 1, Len(prefix)) = prefix

ApiKeyEntry(id, key, enabled) == [id |-> id, key |-> key, enabled |-> enabled]

VerifyKey_IgnoresEnabled(token, keys) ==
    \/ token = ProxyApiKey
    \/ \E i \in 1..Len(keys) : keys[i].key = token

\* ApiKeyManager.verify_key
VerifyKey(token, keys) ==
    \/ token = ProxyApiKey
    \/ \E i \in 1..Len(keys) : keys[i].enabled /\ keys[i].key = token

\* verify_api_key returns True rather than raising HTTPException(401).
VerifyApiKey(header, keys) ==
    /\ header.present /\ header.text # <<>>
    /\ StartsWith(header.text, Bearer)
    /\ VerifyKey(SubSeq(header.text, 8, Len(header.text)), keys)

\* A request that has not reached verify_api_key.
NotSeen == [path |-> "none", header |-> NoHeader, passed |-> FALSE]
\* apikeys.json does not exist.
NoKeyFile == [exists |-> FALSE, keys |-> <<>>]
\* The key manager with no key, no file and no request seen; `lost` counts
\* the writes of apikeys.json that failed since it was last written, `next`
\* numbers the entries made.
NoAuth ==
    [keys |-> <<>>, seen |-> [r \in Reqs |-> NotSeen], file |-> NoKeyFile,
     lost |-> 0, next |-> 1]

\* Keys created in one run of the model.
MaxKeys == 2
\* The characters of a key that a preview shows.
PreviewLen == 8
Dots == <<".", ".", ".">>

\* _generate_key: "sk-" and 48 hexadecimal digits, here "sk-" and six.
GenerateKey(n) == <<"s", "k", "-", "0", "0", "0", "0", "0", ToString(n)>>

\* entry.key[:8] + "..." if len(entry.key) > 8 else entry.key
KeyPreview(key) ==
    IF Len(key) > PreviewLen THEN SubSeq(key, 1, PreviewLen) \o Dots ELSE key

\* What list_keys and update_key return of an entry.
Masked(entry) ==
    [id |-> entry.id, key_preview |-> KeyPreview(entry.key),
     enabled |-> entry.enabled]

\* ApiKeyManager.list_keys
ListKeys(keys) == [i \in 1..Len(keys) |-> Masked(keys[i])]

\* ApiKeyManager._load: the entries of the file, or the entry seeded from
\* PROXY_API_KEY when there is no file.
KeysLoad(a) ==
    IF a.file.exists THEN [a EXCEPT !.keys = a.file.keys]
    ELSE [a EXCEPT !.keys = <<ApiKeyEntry(a.next, ProxyApiKey, TRUE)>>,
                   !.next = @ + 1]

\* ApiKeyManager._save: the entries are written, unless the write raises,
\* which is logged and nothing more.
KeysSave(a, ok) ==
    IF ok THEN [a EXCEPT !.file = [exists |-> TRUE, keys |-> a.keys], !.lost = 0]
    ELSE [a EXCEPT !.lost = @ + 1]

\* The position of the entry with this id, 0 when there is none.
KeyIndex(keys, id) ==
    IF \E i \in 1..Len(keys) : keys[i].id = id
    THEN CHOOSE i \in 1..Len(keys) : keys[i].id = id ELSE 0

\* --------------------------------------------------- the conversation id
\* No message list has been handed to generate_conversation_id.
NoConversation == [messages |-> <<>>, id |-> <<>>]

\* Messages of a conversation handed to generate_conversation_id.
MaxTurns == 5
\* The characters of a content that go into the hash.
ContentCut == 100
\* A text of ContentCut characters followed by the character c.
LongText(c) == [i \in 1..ContentCut |-> "x"] \o <<c>>
\* content[:100]
CutContent(content) ==
    IF Len(content) > ContentCut THEN SubSeq(content, 1, ContentCut) ELSE content

\* hashlib.sha256(...).hexdigest()[:16], taken as free of collisions: equal
\* for equal texts and different for different ones.
Sha256Hex16(simplified) == <<"sha256", simplified>>

\* generate_conversation_id for a non-empty list of messages with string
\* contents: the first three messages and the last one, each cut to its
\* role and the first 100 characters of its content, hashed.
GenerateConversationId(messages) ==
    LET key_messages ==
            IF Len(messages) <= 3 THEN messages
            ELSE SubSeq(messages, 1, 3) \o <<messages[Len(messages)]>>
    IN  Sha256Hex16([i \in 1..Len(key_messages) |->
                        [role |-> key_messages[i].role,
                         content |-> CutContent(key_messages[i].content)]])

\* ------------------------------------------------------------ the store
\* The tasks of the event loop that call the stores.
Tasks == {1, 2}
\* A task outside any store call; made and gone are the ids its creates
\* have returned and its deletes have removed.
NoCall(made, gone) ==
    [op |-> "none", step |-> "idle", id |-> NoId, snapshot |-> <<>>,
     made |-> made, gone |-> gone]
NoTasks == [t \in Tasks |-> NoCall({}, {})]
\* The history store with no record and no file content; `lost` counts the
\* writes of request_history.json that failed since it was last written.
NoHistory == [records |-> <<>>, file |-> <<>>, next |-> 1, lost |-> 0]

\* max_size, a parameter of RequestHistory.__init__ (200 when not given);
\* the history modelled is constructed with 2.
MaxSize == 2
\* Entries recorded in one run of the model.
MaxRecords == 4

\* deque.append on a deque(maxlen=max_size): a full deque drops its first
\* element.
AppendRight(d, x) ==
    IF Len(d) >= MaxSize THEN SubSeq(d, 2, Len(d)) \o <<x>> ELSE Append(d, x)

AppendLeft_EvictsNewest(d, x) ==
    IF Len(d) >= MaxSize THEN <<x>> \o SubSeq(d, 2, Len(d)) ELSE <<x>> \o d

\* deque.appendleft on a deque(maxlen=max_size): a full deque drops its
\* last element.
AppendLeft(d, x) ==
    IF Len(d) >= MaxSize THEN <<x>> \o SubSeq(d, 1, Len(d) - 1) ELSE <<x>> \o d

\* RequestHistory._load: the entries of the file are appended one by one.
RECURSIVE LoadInto(_, _)
LoadInto(d, entries) ==
    IF entries = <<>> THEN d
    ELSE LoadInto(AppendRight(d, Head(entries)), Tail(entries))
HistoryLoad(file) == LoadInto(<<>>, file)

\* RequestHistory._save: list(self._records) is written, unless the write
\* raises, which is passed over.
HistorySave(h, ok) ==
    IF ok THEN [h EXCEPT !.file = h.records, !.lost = 0]
    ELSE [h EXCEPT !.lost = @ + 1]

\* items[start:stop] of Python: a negative index counts from the end, and
\* both ends are clamped to the list.
PyIndex(n, i) ==
    IF i < 0 THEN (IF n + i < 0 THEN 0 ELSE n + i) ELSE (IF i > n THEN n ELSE i)
PySlice(items, start, stop) ==
    SubSeq(items, PyIndex(Len(items), start) + 1, PyIndex(Len(items), stop))

\* RequestHistory.list
HistoryList(records, limit, offset) ==
    [records |-> PySlice(records, offset, offset + limit), total |-> Len(records)]

\* ------------------------------------------------------------ the tasks
\* TaskStore.__init__: no task; `next` numbers the tasks made and `now` is
\* the reading of the clock of the latest call.
NoTaskStore == [tasks |-> <<>>, next |-> 1, now |-> 0]

\* The tasks one process makes and the readings of its clock.
MaxTasks == 2
MaxNow == 3

\* Field(..., min_length=1, max_length=200)
TitleMin == 1
TitleMax == 200

TaskStatus == {"pending", "in_progress", "completed"}
TaskPriority == {"low", "medium", "high"}

\* A field of a JSON body: left out, null, or a value.
Unset == "unset"
Null == "null"
\* A title: left out, null, or a text.
Title(kind, text) == [kind |-> kind, text |-> text]
Text(n) == Title("text", [i \in 1..n |-> "t"])
NullTitle == Title(Null, <<>>)
UnsetTitle == Title(Unset, <<>>)

TaskBody(title, status, priority) ==
    [title |-> title, status |-> status, priority |-> priority]

\* title: str with min_length and max_length.
ValidTitle(title) ==
    title.kind = "text" /\ Len(title.text) \in TitleMin..TitleMax

\* TaskCreate and TaskUpdate: the title is required, status and priority are
\* enum members with a default; null is no member.
AcceptsTaskCreate(body) ==
    /\ ValidTitle(body.title)
    /\ body.status \in TaskStatus \cup {Unset}
    /\ body.priority \in TaskPriority \cup {Unset}

\* TaskPatch: every field is Optional with default None, so null passes, and
\* the length bounds only apply to a text.
AcceptsTaskPatch(body) ==
    /\ body.title.kind = "text" => ValidTitle(body.title)
    /\ body.status \in TaskStatus \cup {Unset, Null}
    /\ body.priority \in TaskPriority \cup {Unset, Null}

\* The value of a field with a default.
OrDefault(value, default) == IF value = Unset THEN default ELSE value

\* TaskStore.create: Task(...) with the fields of the validated body.
NewTask(id, body, now) ==
    [id |-> id,
     title |-> body.title,
     status |-> OrDefault(body.status, "pending"),
     priority |-> OrDefault(body.priority, "medium"),
     created_at |-> now,
     updated_at |-> now]

\* TaskStore.update: every field is assigned from the validated body.
UpdatedTask(task, body, now) ==
    [task EXCEPT !.title = body.title,
                 !.status = OrDefault(body.status, "pending"),
                 !.priority = OrDefault(body.priority, "medium"),
                 !.updated_at = now]

\* model_dump(exclude_unset=True): the fields the body named, null included.
PatchIsEmpty(body) ==
    body.title.kind = Unset /\ body.status = Unset /\ body.priority = Unset

\* TaskStore.patch: setattr of every field the body named, without
\* validation on assignment; updated_at only when a field was named.
PatchedTask(task, body, now) ==
    [task EXCEPT !.title = IF body.title.kind = Unset THEN @ ELSE body.title,
                 !.status = IF body.status = Unset THEN @ ELSE body.status,
                 !.priority = IF body.priority = Unset THEN @ ELSE body.priority,
                 !.updated_at = IF PatchIsEmpty(body) THEN @ ELSE now]

TaskIndex(ts, id) ==
    IF \E i \in 1..Len(ts) : ts[i].id = id
    THEN CHOOSE i \in 1..Len(ts) : ts[i].id = id
    ELSE 0

\* priority_order.get(t.priority.value, 1)
PriorityOrder(priority) ==
    CASE priority = "high" -> 0
      [] priority = "low" -> 2
      [] OTHER -> 1

\* The sort key of a task.
SortKey(task, sort_by) ==
    CASE sort_by = "priority" -> PriorityOrder(task.priority)
      [] sort_by = "created_at" -> task.created_at
      [] OTHER -> task.updated_at

\* list.sort(key, reverse): stable in both directions.
RECURSIVE InsertSorted(_, _, _, _)
InsertSorted(sorted, task, sort_by, reverse) ==
    IF sorted = <<>> THEN <<task>>
    ELSE LET k == SortKey(task, sort_by)
             h == SortKey(Head(sorted), sort_by)
         IN  IF (IF reverse THEN h >= k ELSE h <= k)
             THEN <<Head(sorted)>> \o InsertSorted(Tail(sorted), task, sort_by, reverse)
             ELSE <<task>> \o sorted

RECURSIVE SortInto(_, _, _, _)
SortInto(sorted, ts, sort_by, reverse) ==
    IF ts = <<>> THEN sorted
    ELSE SortInto(InsertSorted(sorted, Head(ts), sort_by, reverse),
                  Tail(ts), sort_by, reverse)

\* t.priority.value of a task whose priority is None: AttributeError.
SortRaises(ts, sort_by) ==
    sort_by = "priority" /\ \E i \in 1..Len(ts) : ts[i].priority = Null

\* TaskStore.list: filters (a filter of None is not applied), the total, the
\* sort, the page.
TaskList(ts, status, priority, page, page_size, sort_by, sort_order) ==
    LET byStatus == IF status = Unset THEN ts
                    ELSE SelectSeq(ts, LAMBDA t : t.status = status)
        filtered == IF priority = Unset THEN byStatus
                    ELSE SelectSeq(byStatus, LAMBDA t : t.priority = priority)
        start == (page - 1) * page_size
    IN  IF SortRaises(filtered, sort_by)
        THEN [raised |-> TRUE, tasks |-> <<>>, total |-> Len(filtered)]
        ELSE [raised |-> FALSE,
              tasks |-> PySlice(SortInto(<<>>, filtered, sort_by,
                                         sort_order = "desc"),
                                start, start + page_size),
              total |-> Len(filtered)]

StoredIds(st) == {st[i].response_id : i \in 1..Len(st)}

Lookup(st, id) == CHOOSE x \in {st[i] : i \in 1..Len(st)} : x.response_id = id

\* metadata: None, or a dict given as its set of items.
NoMetadata == [none |-> TRUE, items |-> {}]
Dict(items) == [none |-> FALSE, items |-> items]
\* metadata or {}
MetadataOrEmpty(metadata) ==
    IF metadata.none \/ metadata.items = {} THEN Dict({}) ELSE metadata

\* datetime.isoformat() and datetime.fromisoformat(): a reading of the clock
\* as the text stored in a record, and back.
\* The first start is on 2026-01-02; a file found then can hold timestamps of
\* the day before.
DayBefore == -1
IsoTexts ==
    [t \in DayBefore..MaxClock |->
        "2026-01-0" \o ToString(t + 2) \o "T00:00:00+00:00"]
IsoFormat(t) == IsoTexts[t]
Parseable(s) == \E t \in DOMAIN IsoTexts : IsoTexts[t] = s
FromIsoFormat(s) == CHOOSE t \in DOMAIN IsoTexts : IsoTexts[t] = s

\* A key a record loaded from a foreign file does not have.
NoField == "<absent>"
\* max_age_days, a parameter of the constructor (7 when not given); the
\* store modelled is constructed with 1.
MaxAgeDays == 1

\* response_states.json: absent, or {"states": {id: record, ...}}; with it,
\* the number of writes that have failed since it was last written.
NoFile == [exists |-> FALSE, states |-> <<>>, lost |-> 0]
File(st) == [exists |-> TRUE, states |-> st, lost |-> 0]

\* ResponseStateStore._load
Load(file) == IF file.exists THEN file.states ELSE <<>>

\* state.get("last_accessed", state.get("created_at"))
EffectiveTimestamp(x) ==
    IF x.last_accessed = NoField THEN x.created_at ELSE x.last_accessed

Expired_AtCutoffToo(x, now) ==
    \/ ~Parseable(EffectiveTimestamp(x))
    \/ FromIsoFormat(EffectiveTimestamp(x)) <= now - MaxAgeDays

\* The test of _cleanup_expired: the timestamp is before the cutoff, or
\* reading and comparing it raises.
Expired(x, now) ==
    \/ ~Parseable(EffectiveTimestamp(x))
    \/ FromIsoFormat(EffectiveTimestamp(x)) < now - MaxAgeDays

\* ResponseStateStore._cleanup_expired, without _save.
CleanupExpired(st, now) == SelectSeq(st, LAMBDA x : ~Expired(x, now))

Save_NewestOnly(file, st, ok) ==
    IF ok THEN File(IF st = <<>> THEN <<>> ELSE <<st[Len(st)]>>)
    ELSE [file EXCEPT !.lost = @ + 1]

\* ResponseStateStore._save: the whole map is written, unless write_text
\* raises, which is logged and nothing more.
Save(file, st, ok) == IF ok THEN File(st) ELSE [file EXCEPT !.lost = @ + 1]
\* The outcomes of the next write.
WriteOutcomes == IF disk.lost < MaxLost THEN BOOLEAN ELSE {TRUE}

Delete_Ignored(st, id) == st

\* ResponseStateStore.delete on a hit, without _save.
Delete(st, id) == SelectSeq(st, LAMBDA x : x.response_id # id)

\* ResponseStateStore.list_all
ListAll(st) == st

Create_EmptyMessages(st, id, messages, model, metadata, now) ==
    Append(st, [response_id |-> id, messages |-> <<>>, model |-> model,
                metadata |-> MetadataOrEmpty(metadata),
                created_at |-> IsoFormat(now), last_accessed |-> IsoFormat(now)])

\* ResponseStateStore.create, without _save: a new key goes to the end of
\* the ordered map.
Create(st, id, messages, model, metadata, now) ==
    Append(st, [response_id |-> id, messages |-> messages, model |-> model,
                metadata |-> MetadataOrEmpty(metadata),
                created_at |-> IsoFormat(now), last_accessed |-> IsoFormat(now)])

Get_InPlace(st, id, now) ==
    [i \in 1..Len(st) |->
        IF st[i].response_id = id
        THEN [st[i] EXCEPT !.last_accessed = IsoFormat(now)] ELSE st[i]]

Get_Recreated(st, id, now) ==
    LET IsOther(x) == x.response_id # id
    IN  SelectSeq(st, IsOther)
            \o <<[Lookup(st, id) EXCEPT !.last_accessed = IsoFormat(now),
                                        !.created_at = IsoFormat(now)]>>

\* ResponseStateStore.get on a hit, without _save: last_accessed, move_to_end.
Get(st, id, now) ==
    LET IsOther(x) == x.response_id # id
    IN  SelectSeq(st, IsOther)
            \o <<[Lookup(st, id) EXCEPT !.last_accessed = IsoFormat(now)]>>

\* request_data.model and request_data.metadata of the requests modelled.
RequestModel == "claude-sonnet-4"
RequestMetadata == NoMetadata

StoreCreate_NotStored(st, id, messages) == st

\* response_store.create(messages=..., model=request_data.model,
\* metadata=request_data.metadata), as the handlers call it.
StoreCreate(st, id, messages) ==
    Create(st, id, messages, RequestModel, RequestMetadata, clock)

StoreGet_MessagesDropped(st, id) ==
    LET g == Get(st, id, clock)
    IN  [i \in 1..Len(g) |->
            IF g[i].response_id = id THEN [g[i] EXCEPT !.messages = <<>>] ELSE g[i]]

\* response_store.get(request_data.previous_response_id) on a hit.
StoreGet(st, id) == Get(st, id, clock)

\* ------------------------------------------------- the truncation repair
\* ChatMessage.content: a string, a list of content parts, or None.
Str(text) == [type |-> "str", text |-> text]
Parts(text) == [type |-> "list", text |-> text]
NoContent == [type |-> "none", text |-> ""]

\* A ChatMessage; an absent or empty tool_call_id or name is "".
ChatMessage(role, content, tool_call_id, name) ==
    [role |-> role, content |-> content, tool_call_id |-> tool_call_id,
     name |-> name]

\* The registry: the tool-call ids with a record, the texts whose
\* fingerprint has a record, and which kind of lookup raises, if any.
Registry(tools, contents, raises) ==
    [tools |-> tools, contents |-> contents, raises |-> raises]
NoTruncations == Registry({}, {}, "none")
ToolCallIds == {"call_1", "call_2"}
TruncatedTexts == {"cut"}
Registries ==
    {Registry(t, c, x) : t \in SUBSET ToolCallIds, c \in SUBSET TruncatedTexts,
                         x \in {"none", "tool", "content"}}

\* get_tool_truncation(tool_call_id) returned a record.
GetToolTruncation(reg, tool_call_id) == tool_call_id \in reg.tools
\* get_content_truncation(content) returned a record.
GetContentTruncation(reg, text) == text \in reg.contents

\* generate_truncation_tool_result(...)["content"]
ToolNotice(tool_call_id) ==
    "[API Limitation] The tool call " \o tool_call_id \o " was truncated."
\* generate_truncation_user_message()
UserNotice == "[System Notice] Your previous response was truncated."

\* "{msg.content}" inside an f-string: str() of the content.
Format(content) ==
    CASE content.type = "str" -> content.text
      [] content.type = "none" -> "None"
      [] OTHER -> "['" \o content.text \o "']"

ModifiedContent_OriginalFirst(notice, content) ==
    Str(Format(content) \o "\n\n---\n\nOriginal tool result:\n" \o notice)

\* modified_content of line 217.
ModifiedContent(notice, content) ==
    Str(notice \o "\n\n---\n\nOriginal tool result:\n" \o Format(content))

\* msg.content and isinstance(msg.content, str)
IsText(content) == content.type = "str" /\ content.text # ""

\* The conditions under which the loop makes each lookup.
LooksUpTool(msg) == msg.role = "tool" /\ msg.tool_call_id # ""
LooksUpContent(msg) == msg.role = "assistant" /\ IsText(msg.content)

\* ChatMessage(role="user", content=generate_truncation_user_message())
SyntheticUserMsg == ChatMessage("user", Str(UserNotice), "", "")

RepairOne_NoticeFirst(msg, reg) ==
    IF LooksUpContent(msg) /\ GetContentTruncation(reg, msg.content.text)
    THEN <<SyntheticUserMsg, msg>>
    ELSE <<msg>>

RepairOne_Unrepaired(msg, reg) == <<msg>>

\* One turn of the loop of lines 206-245: what it appends to
\* modified_messages for `msg`.
RepairOne(msg, reg) ==
    IF LooksUpTool(msg) /\ GetToolTruncation(reg, msg.tool_call_id)
    THEN <<[msg EXCEPT !.content =
                ModifiedContent(ToolNotice(msg.tool_call_id), msg.content)]>>
    ELSE IF LooksUpContent(msg) /\ GetContentTruncation(reg, msg.content.text)
         THEN <<msg, SyntheticUserMsg>>
         ELSE <<msg>>

\* The loop over request_data.messages, when every lookup returns.
RECURSIVE Repair(_, _)
Repair(messages, reg) ==
    IF messages = <<>> THEN <<>>
    ELSE RepairOne(Head(messages), reg) \o Repair(Tail(messages), reg)

\* The loop makes a lookup that raises.
LookupRaises(messages, reg) ==
    \E i \in 1..Len(messages) :
        \/ reg.raises = "tool" /\ LooksUpTool(messages[i])
        \/ reg.raises = "content" /\ LooksUpContent(messages[i])

\* The messages a chat request can carry.
RepairMessages ==
    { ChatMessage("tool", Str("r1"), "call_1", ""),
      ChatMessage("tool", Str("r0"), "", "t"),
      ChatMessage("tool", NoContent, "call_2", ""),
      ChatMessage("assistant", Str("cut"), "", "bot"),
      ChatMessage("assistant", Str(""), "", ""),
      ChatMessage("assistant", Parts("cut"), "", ""),
      ChatMessage("user", Str("hi"), "", "") }
\* messages: List[ChatMessage] with min_length=1
SeqsUpTo(S, n) == UNION {[1..k -> S] : k \in 1..n}

\* ------------------------------------------------- pieces of the handlers
CloseClient_Skipped(q) == q

\* await http_client.close()
CloseClient(q) == [q EXCEPT !.closes = @ + 1]

\* _record_history: the endpoint is the literal of line 68.
RecordHistory(q, stream, status_code, error) ==
    [q EXCEPT !.hist = Append(@, [endpoint |-> "/v1/chat/completions",
                                  stream |-> stream,
                                  status_code |-> status_code,
                                  error |-> error])]

\* debug_logger.flush_on_error / discard_buffers: only chat_completions
\* calls them.
DebugLog(q, call) ==
    IF q.endpoint = "chat" THEN [q EXCEPT !.dbg = Append(@, call)] ELSE q

AcceptedStatus_Unchecked(status) == TRUE
AcceptedStatus_Any2xx(status) == status \in 200..299

\* if response.status_code != 200
AcceptedStatus(status) == status = Ok

\* enhance_kiro_error on a body that parsed as JSON: a user message, or the
\* KeyError the handlers catch.
Enhance(body) == IF body = "json" THEN "user_message" ELSE "KeyError"

\* The message of the error envelope: b"Unknown error" when aread() fails,
\* the enhanced message when the body parses and is enhanced, else the text.
ErrorMessage(body) ==
    CASE body = "unreadable" -> "Unknown error"
      [] body \in {"json", "json_keyerror"} /\ Enhance(body) # "KeyError"
            -> Enhance(body)
      [] OTHER -> "error_text"

ErrorEnvelope_Always500(status, message) ==
    Resp("json_error", InternalError, InternalError, NoId, message)

\* The JSONResponse of the non-200 branch.
ErrorEnvelope(status, message) ==
    Resp("json_error", status, status, NoId, message)

\* The status the non-200 branch hands to _record_history.
ErrorHistoryStatus(status) == status

\* The non-200 branch: read the body, close, record, answer.
UpstreamError(q, status, body) ==
    LET q1 == CloseClient([q EXCEPT !.status_code = status])
        q2 == DebugLog(q1, "flush_on_error")
        q3 == RecordHistory(q2, q.stream, ErrorHistoryStatus(status), TRUE)
    IN  [q3 EXCEPT !.pc = "done",
                   !.resp = ErrorEnvelope(status, ErrorMessage(body))]

\* The two except clauses that end each handler: close, record, raise.
HandlerExcept(q, status) ==
    LET q1 == CloseClient(q)
        q2 == RecordHistory(q1, q.stream, status, TRUE)
        q3 == DebugLog(q2, "flush_on_error")
    IN  [q3 EXCEPT !.pc = "done",
                   !.resp = Resp("http_exception", status, status, NoId, "detail")]

PersistGate_StoreIgnored(store, streaming_error) == ~streaming_error

\* if request_data.store and not streaming_error
PersistGate(store, streaming_error) == store /\ ~streaming_error

\* ----------------------------------------------------- the stream wrappers
\* chat_completions.stream_wrapper relays a chunk as it is.
TranslateChat(chunk) == <<Frame("chat.completion.chunk", NoId, chunk.content)>>

TranslateResponses_ItemAfterDeltas(chunk, first_chunk) ==
    LET ToolFrame(i) ==
            Frame("response.function_call_arguments.delta", NoId,
                  <<chunk.tool_calls[i]>>)
    IN  (IF chunk.choices /\ chunk.content # <<>>
            THEN <<Frame("response.text.delta", NoId, chunk.content)>> ELSE <<>>)
        \o (IF chunk.choices
            THEN [i \in 1..Len(chunk.tool_calls) |-> ToolFrame(i)] ELSE <<>>)
        \o (IF first_chunk /\ chunk.choices
            THEN <<Frame("response.output_item.added", NoId, <<>>)>> ELSE <<>>)

\* responses.stream_wrapper, the else branch of the loop body: the frames one
\* chunk yields, in order.
TranslateResponses(chunk, first_chunk) ==
    LET ToolFrame(i) ==
            Frame("response.function_call_arguments.delta", NoId,
                  <<chunk.tool_calls[i]>>)
    IN  (IF first_chunk /\ chunk.choices
            THEN <<Frame("response.output_item.added", NoId, <<>>)>> ELSE <<>>)
        \o (IF chunk.choices /\ chunk.content # <<>>
            THEN <<Frame("response.text.delta", NoId, chunk.content)>> ELSE <<>>)
        \o (IF chunk.choices
            THEN [i \in 1..Len(chunk.tool_calls) |-> ToolFrame(i)] ELSE <<>>)

Translate(q, chunk) ==
    IF q.endpoint = "chat" THEN TranslateChat(chunk)
    ELSE TranslateResponses(chunk, q.first_chunk)

TranslateDone_NoResponseDone(q) ==
    IF q.endpoint = "chat" THEN <<Frame("[DONE]", NoId, <<>>)>> ELSE <<>>

\* What each wrapper yields for the relay's "data: [DONE]" frame.
TranslateDone(q) ==
    IF q.endpoint = "chat" THEN <<Frame("[DONE]", NoId, <<>>)>>
    ELSE <<Frame("response.done", q.response_id, <<>>)>>

\* What str(e) gives for the exceptions a translation can end with.
Failures == {"boom", "bad chunk"}
NoFailure == ""

ErrorFrame_WithoutMessage(q) ==
    IF q.endpoint = "chat" THEN Frame("[DONE]", NoId, <<>>)
    ELSE Frame("response.error", NoId, <<>>)

\* What each wrapper tries to yield from its except Exception clause; the
\* response.error event carries str(e) as error.message.
ErrorFrame(q) ==
    IF q.endpoint = "chat" THEN Frame("[DONE]", NoId, <<>>)
    ELSE Frame("response.error", NoId, <<q.exc>>)

YieldFrame_NewestFirst(q, f) ==
    [q EXCEPT !.frames = Append(@, f),
              !.assistant_message_content =
                  IF f.type = "response.text.delta" THEN f.delta \o @ ELSE @]

\* A yield: the frame goes to the consumer; the text of a response.text.delta
\* frame was appended to assistant_message_content right before it.
YieldFrame(q, f) ==
    [q EXCEPT !.frames = Append(@, f),
              !.assistant_message_content =
                  IF f.type = "response.text.delta" THEN @ \o f.delta ELSE @]

\* The wrapper runs on with the frames `fs` left to yield for the current
\* chunk: it suspends at the first one, or asks the relay again.
RunBody(q, fs) ==
    IF fs = <<>> THEN [q EXCEPT !.gen = "running", !.pending = <<>>]
    ELSE [YieldFrame(q, Head(fs)) EXCEPT !.gen = "body", !.pending = Tail(fs)]

\* The finally clause of a wrapper, without the store call.
Finally(q) ==
    LET err == q.streaming_error
        q1 == CloseClient(q)
        q2 == RecordHistory(q1, TRUE, IF err THEN InternalError ELSE Ok, err)
        q3 == DebugLog(q2, IF err THEN "flush_on_error" ELSE "discard_buffers")
    IN  [q3 EXCEPT !.gen = "finished", !.pc = "done"]

\* ------------------------------------------------------------ the state
TypeOK ==
    /\ DOMAIN req = Reqs
    /\ nextId \in Nat
    /\ \A r \in Reqs :
        /\ req[r].endpoint \in Endpoints
        /\ req[r].pc \in {"idle", "calling", "collecting", "streaming", "done"}
        /\ req[r].gen \in {"none", "created", "running", "body", "err", "finished"}
        /\ req[r].closes \in Nat

InitReq ==
    [pc |-> "idle", endpoint |-> "chat", stream |-> FALSE, store |-> FALSE,
     previous_response_id |-> NoId, messages |-> <<>>, client |-> "none",
     status_code |-> 0, closes |-> 0, hist |-> <<>>, dbg |-> <<>>,
     resp |-> NoResp, frames |-> <<>>, gen |-> "none", pending |-> <<>>,
     delivered |-> 0, relay_done |-> FALSE, streaming_error |-> FALSE,
     client_disconnected |-> FALSE, first_chunk |-> TRUE,
     assistant_message_content |-> <<>>, response_id |-> NoId,
     created |-> <<>>, cancelled |-> FALSE, cancel_at |-> 0,
     raised |-> "none", conn |-> NoConn, exc |-> NoFailure]

\* The store is loaded at startup: empty, or holding an earlier conversation.
Init ==
    /\ clock = 0
    /\ req = [r \in Reqs |-> InitReq]
    /\ states \in {<<>>, StoreCreate(<<>>, SeedId, SeedMessages)}
    /\ nextId = SeedId + 1
    /\ createLog = <<>>
    /\ truncations = NoTruncations
    /\ repair = [input |-> <<>>, runs |-> <<>>, raised |-> FALSE]
    /\ disk = File(states)
    /\ log = <<>>
    /\ up = TRUE
    /\ tasks = NoTasks
    /\ history = NoHistory
    /\ conversation = NoConversation
    /\ taskStore = NoTaskStore
    /\ auth = NoAuth

Arrived(r) == req[r].pc # "idle"
MayArrive(r) == req[r].pc = "idle" /\ \A p \in Reqs : p < r => Arrived(p)

ClientFor_AlwaysShared(stream) == "shared"

\* KiroHttpClient(auth_manager, shared_client=...)
ClientFor(stream) == IF stream THEN "per_request" ELSE "shared"

\* The connection a KiroHttpClient sends on: the pooled one it was handed, or
\* one it opens for itself, which no other handler call holds a reference to.
ConnFor(r, client) == IF client = "per_request" THEN r ELSE SharedConn

\* ids a client can put in previous_response_id: none, one the store never
\* issued, one it was sent, or one the store holds.
SentIds ==
    UNION {{req[r].resp.id} \cup {req[r].frames[i].id : i \in 1..Len(req[r].frames)}
           : r \in Reqs}
PreviousIds == ({NoId, InvalidId} \cup SentIds \cup StoredIds(states))

\* ---------------------------------------------------------------- actions
\* chat_completions up to the upstream call.
ChatArrive(r, stream, rejected) ==
    /\ MayArrive(r)
    /\ LET q == [req[r] EXCEPT !.endpoint = "chat", !.stream = stream,
                               !.messages = Repair(InputOf(r), truncations)]
       IN  req' = [req EXCEPT ![r] =
               IF rejected
               THEN [q EXCEPT !.pc = "done",
                              !.resp = Resp("http_exception", 400, 400, NoId, "detail")]
               ELSE [q EXCEPT !.pc = "calling", !.client = ClientFor(stream),
                              !.conn = ConnFor(r, ClientFor(stream))]]
    /\ UNCHANGED <<states, nextId, createLog>>

\* responses up to the upstream call.
ResponsesArrive(r, stream, store, prev, rejected) ==
    /\ MayArrive(r)
    /\ prev \in PreviousIds
    /\ LET found == prev \in StoredIds(states)
           loaded == IF prev # NoId /\ found
                     THEN Lookup(states, prev).messages ELSE <<>>
           q == [req[r] EXCEPT !.endpoint = "responses", !.stream = stream,
                               !.store = store, !.previous_response_id = prev]
       IN  IF prev # NoId /\ ~found
           THEN /\ req' = [req EXCEPT ![r] =
                        [q EXCEPT !.pc = "done",
                                  !.resp = Resp("http_exception", NotFound, NotFound,
                                                NoId, NotFoundDetail(prev))]]
                /\ states' = states
           ELSE /\ states' = IF prev # NoId THEN StoreGet(states, prev) ELSE states
                /\ req' = [req EXCEPT ![r] =
                        IF rejected
                        THEN [q EXCEPT !.pc = "done",
                                       !.messages = AssembleMessages(loaded, InputOf(r)),
                                       !.resp = Resp("http_exception", 400, 400, NoId, "detail")]
                        ELSE [q EXCEPT !.pc = "calling",
                                       !.messages = AssembleMessages(loaded, InputOf(r)),
                                       !.client = ClientFor(stream),
                                       !.conn = ConnFor(r, ClientFor(stream))]]
    /\ UNCHANGED <<nextId, createLog>>

\* request_with_retry returns: the status is inspected, and the handler
\* either takes the non-200 branch or goes on to stream or collect.
UpstreamAnswer(r, status, body) ==
    /\ req[r].pc = "calling"
    /\ LET q == [req[r] EXCEPT !.status_code = status]
           mint == q.stream /\ q.endpoint = "responses"
       IN  IF ~AcceptedStatus(status)
           THEN /\ req' = [req EXCEPT ![r] = UpstreamError(q, status, body)]
                /\ nextId' = nextId
           ELSE /\ req' = [req EXCEPT ![r] =
                        IF q.stream
                        THEN [q EXCEPT !.pc = "streaming", !.gen = "created",
                                       !.response_id = IF mint THEN nextId ELSE NoId,
                                       !.resp = Resp("stream", Ok, 0, NoId, "")]
                        ELSE [q EXCEPT !.pc = "collecting"]]
                /\ nextId' = IF mint THEN nextId + 1 ELSE nextId
    /\ UNCHANGED <<states, createLog>>

\* request_with_retry raises: an HTTPException, or anything else (500).
UpstreamFails(r, status) ==
    /\ req[r].pc = "calling"
    /\ req' = [req EXCEPT ![r] = HandlerExcept(req[r], status)]
    /\ UNCHANGED <<states, nextId, createLog>>

\* Where the non-streaming branch can fail after its own close(): reading
\* choices[0].message of the collected response (responses with store), or
\* building the JSONResponse.
CollectFaults == {"none", "message", "render"}

\* collect_stream_response returns; the rest of the non-streaming branch.
CollectDone(r, fault) ==
    /\ req[r].pc = "collecting"
    /\ fault \in CollectFaults
    /\ fault = "message" => (req[r].endpoint = "responses" /\ req[r].store)
    /\ LET q == req[r]
           q1 == CloseClient(q)
           persist == q.endpoint = "responses" /\ q.store /\ fault # "message"
           mint == q.endpoint = "responses" /\ fault # "message"
           q2 == IF persist THEN [q1 EXCEPT !.created = Append(@, nextId)] ELSE q1
           q3 == DebugLog(RecordHistory(q2, FALSE, Ok, FALSE), "discard_buffers")
           id == IF mint THEN nextId ELSE NoId
       IN  /\ req' = [req EXCEPT ![r] =
                  CASE fault = "message" -> HandlerExcept(q1, InternalError)
                    [] fault = "render" -> HandlerExcept(q3, InternalError)
                    [] OTHER -> [q3 EXCEPT !.pc = "done", !.response_id = id,
                                           !.resp = Resp("json", Ok, 0, id, "")]]
           /\ states' = IF persist
                        THEN StoreCreate(states, nextId,
                                         q.messages \o <<CollectedMessage>>)
                        ELSE states
           /\ createLog' = IF persist THEN Append(createLog, r) ELSE createLog
           /\ nextId' = IF mint THEN nextId + 1 ELSE nextId

\* collect_stream_response raises.
CollectFails(r) ==
    /\ req[r].pc = "collecting"
    /\ req' = [req EXCEPT ![r] = HandlerExcept(req[r], InternalError)]
    /\ UNCHANGED <<states, nextId, createLog>>

\* The wrapper leaves through its finally clause: close, the store call of
\* responses.stream_wrapper, history, debug log.
FinishStream(r, q, raised) ==
    LET persist == q.endpoint = "responses"
                   /\ PersistGate(q.store, q.streaming_error)
        q1 == IF persist THEN [q EXCEPT !.created = Append(@, nextId)] ELSE q
    IN  /\ req' = [req EXCEPT ![r] = [Finally(q1) EXCEPT !.raised = raised]]
        /\ states' = IF persist
                     THEN StoreCreate(states, nextId,
                              q.messages \o
                              <<Msg("assistant", q.assistant_message_content)>>)
                     ELSE states
        /\ createLog' = IF persist THEN Append(createLog, r) ELSE createLog
        /\ nextId' = IF persist THEN nextId + 1 ELSE nextId

\* The consumer asks for the next frame (anext).
ClientNext(r) ==
    /\ req[r].pc = "streaming"
    /\ req[r].gen \in {"created", "body", "err"}
    /\ IF req[r].gen = "err"
       THEN \* resumed after the yield of the except clause: raise
            FinishStream(r, req[r], "error")
       ELSE /\ req' = [req EXCEPT ![r] = RunBody(req[r], req[r].pending)]
            /\ UNCHANGED <<states, nextId, createLog>>

\* The consumer goes away while the wrapper is not running (aclose):
\* GeneratorExit is raised at the yield the wrapper is suspended at. A
\* wrapper that never ran is closed without running any of its code. Only
\* the except GeneratorExit clause of chat_completions sets
\* client_disconnected; at the yield of an except Exception clause the
\* GeneratorExit passes through the finally clause.
ClientClose(r) ==
    /\ req[r].pc = "streaming"
    /\ req[r].gen \in {"created", "body", "err"}
    /\ LET q == [req[r] EXCEPT !.cancelled = TRUE,
                               !.cancel_at = Len(req[r].frames)]
       IN  IF q.gen = "created"
           THEN /\ req' = [req EXCEPT ![r] =
                        [q EXCEPT !.gen = "finished", !.pc = "done"]]
                /\ UNCHANGED <<states, nextId, createLog>>
           ELSE FinishStream(r,
                    [q EXCEPT !.client_disconnected =
                                  q.gen = "body" /\ q.endpoint = "chat"],
                    "none")

\* The consumer goes away while the wrapper awaits the relay: the await
\* raises CancelledError, which neither except clause catches, so only the
\* finally clause runs and the CancelledError leaves the wrapper.
ClientCancel(r) ==
    /\ req[r].pc = "streaming" /\ req[r].gen = "running"
    /\ FinishStream(r, [req[r] EXCEPT !.cancelled = TRUE,
                                      !.cancel_at = Len(req[r].frames)],
                    "cancelled")

\* The relay (stream_kiro_to_openai): chunks, then one DONE sentinel, then
\* the end of the iteration; or an exception before the sentinel.
RelayMayChunk(q) == ~q.relay_done /\ q.delivered < MaxChunks
RelayMayDone(q) == ~q.relay_done
RelayMayEnd(q) == q.relay_done
RelayMayRaise(q) == ~q.relay_done

\* The relay yields a chunk to the running wrapper.
RelayChunk(r, chunk) ==
    /\ req[r].pc = "streaming" /\ req[r].gen = "running"
    /\ RelayMayChunk(req[r])
    /\ LET q == [req[r] EXCEPT !.delivered = @ + 1]
           fs == Translate(q, chunk)
           q1 == IF fs # <<>> /\ Head(fs).type = "response.output_item.added"
                 THEN [q EXCEPT !.first_chunk = FALSE] ELSE q
       IN  req' = [req EXCEPT ![r] = RunBody(q1, fs)]
    /\ UNCHANGED <<states, nextId, createLog>>

\* The relay yields its DONE sentinel.
RelayDone(r) ==
    /\ req[r].pc = "streaming" /\ req[r].gen = "running"
    /\ RelayMayDone(req[r])
    /\ LET q == [req[r] EXCEPT !.relay_done = TRUE]
       IN  req' = [req EXCEPT ![r] = RunBody(q, TranslateDone(q))]
    /\ UNCHANGED <<states, nextId, createLog>>

\* The relay is exhausted after DONE: the loop ends.
RelayEnds(r) ==
    /\ req[r].pc = "streaming" /\ req[r].gen = "running"
    /\ RelayMayEnd(req[r])
    /\ FinishStream(r, req[r], "none")

\* The relay raises: the except Exception clause yields its frame.
RelayRaises(r) ==
    /\ req[r].pc = "streaming" /\ req[r].gen = "running"
    /\ RelayMayRaise(req[r])
    /\ \E e \in Failures :
           LET q == [req[r] EXCEPT !.streaming_error = TRUE, !.exc = e]
           IN  req' = [req EXCEPT ![r] =
                   [YieldFrame(q, ErrorFrame(q))
                        EXCEPT !.gen = "err", !.pending = <<>>]]
    /\ UNCHANGED <<states, nextId, createLog>>

\* One step of request r, with every input the handlers accept.
Step(r) ==
    \/ \E stream, rejected \in BOOLEAN : ChatArrive(r, stream, rejected)
    \/ \E stream, store, rejected \in BOOLEAN :
           \E prev \in PreviousIds :
               ResponsesArrive(r, stream, store, prev, rejected)
    \/ \E status \in UpstreamStatuses : \E body \in ErrorBodies :
           UpstreamAnswer(r, status, body)
    \/ \E status \in GatewayStatuses \cup {InternalError} :
           UpstreamFails(r, status)
    \/ \E fault \in CollectFaults : CollectDone(r, fault)
    \/ CollectFails(r)
    \/ ClientNext(r)
    \/ ClientClose(r)
    \/ ClientCancel(r)
    \/ \E chunk \in ChunkKinds : RelayChunk(r, chunk)
    \/ RelayDone(r)
    \/ RelayEnds(r)
    \/ RelayRaises(r)

\* The first request to arrive.
First == CHOOSE r \in Reqs : \A p \in Reqs : r <= p

\* One request, on either endpoint, with every input and every outcome.
\* What a step of a request handler does to the rest of the state: every
\* store call of a handler ends in _save, which rewrites the file.
HandlerStep ==
    /\ disk' = Save(disk, states', TRUE)
    /\ UNCHANGED <<truncations, conversation, taskStore, repair, clock, log, up, tasks, history, auth>>

Next == Step(First) /\ HandlerStep

Spec == Init /\ [][Next]_vars

\* One step of a /v1/responses request that the builder and the upstream
\* accept, with a relay that delivers text.
TextChunk == Chunk(TRUE, <<"a">>, <<>>)
StepResponses(r) ==
    \/ \E stream, store \in BOOLEAN :
           \E prev \in PreviousIds :
               ResponsesArrive(r, stream, store, prev, FALSE)
    \/ UpstreamAnswer(r, Ok, "json")
    \/ CollectDone(r, "none")
    \/ ClientNext(r)
    \/ ClientClose(r)
    \/ ClientCancel(r)
    \/ RelayChunk(r, TextChunk)
    \/ RelayDone(r)
    \/ RelayEnds(r)
    \/ RelayRaises(r)

\* Several /v1/responses requests in flight at once.
NextConcurrent ==
    (\E r \in Reqs : StepResponses(r)) /\ HandlerStep

SpecConcurrent == Init /\ [][NextConcurrent]_vars

\* One step of a request, on either endpoint, whose upstream call ends in a
\* refusal or a failure.
StepRefused(r) ==
    \/ \E stream, rejected \in BOOLEAN : ChatArrive(r, stream, rejected)
    \/ \E stream, store, rejected \in BOOLEAN :
           \E prev \in PreviousIds :
               ResponsesArrive(r, stream, store, prev, rejected)
    \/ \E status \in UpstreamStatuses \ {Ok} : UpstreamAnswer(r, status, "json")
    \/ \E status \in GatewayStatuses : UpstreamFails(r, status)

\* Several requests, on both endpoints, with their upstream calls in flight
\* at once.
NextCalls ==
    (\E r \in Reqs : StepRefused(r)) /\ HandlerStep

SpecCalls == Init /\ [][NextCalls]_vars

\* ------------------------------------------------ the routes behind the key
\* The routes declared with dependencies=[Depends(verify_api_key)].
Paths == {"chat", "responses", "models"}

\* Authorization headers a client can send: none, an empty one, Bearer with
\* each key, Bearer with no token, another scheme, the scheme in lower case,
\* a key without scheme, a second space before the key.
Headers ==
    {NoHeader, Header(<<>>), Header(Bearer),
     Header(Bearer \o ProxyApiKey), Header(Bearer \o KeyA),
     Header(Bearer \o KeyB),
     Header(<<"B", "a", "s", "i", "c", " ">> \o KeyA),
     Header(<<"b", "e", "a", "r", "e", "r", " ">> \o KeyA),
     Header(KeyA), Header(Bearer \o <<" ">> \o KeyA)}

\* Key sets the manager can hold after _load: the entry seeded from
\* PROXY_API_KEY, or what apikeys.json held.
KeySets ==
    {<<ApiKeyEntry(1, ProxyApiKey, TRUE)>>,
     <<ApiKeyEntry(1, ProxyApiKey, FALSE), ApiKeyEntry(2, KeyA, TRUE)>>,
     <<ApiKeyEntry(1, KeyA, FALSE), ApiKeyEntry(2, KeyB, TRUE)>>,
     <<ApiKeyEntry(1, KeyA, FALSE), ApiKeyEntry(2, KeyA, TRUE)>>,
     <<>>}

\* The request passed verify_api_key on the route of `path`.
Admitted(r, path) == auth.seen[r].passed /\ auth.seen[r].path = path

\* A request reaches a route: verify_api_key runs before the route's
\* function and raises HTTPException(401), which ends the request, or
\* returns.
Present(r, path, header) ==
    /\ req[r].pc = "idle" /\ auth.seen[r] = NotSeen
    /\ LET passed == VerifyApiKey(header, auth.keys)
       IN  /\ auth' = [auth EXCEPT
                          !.seen[r] = [path |-> path, header |-> header,
                                       passed |-> passed]]
           /\ req' = IF passed THEN req
                     ELSE [req EXCEPT
                              ![r].pc = "done",
                              ![r].resp = Resp("http_exception", Unauthorized,
                                               Unauthorized, NoId,
                                               "Invalid or missing API Key")]
    /\ UNCHANGED <<states, nextId, createLog, truncations, conversation, taskStore, repair, clock, disk,
                   log, up, tasks, history>>

\* get_models: the cached model list.
ServeModels(r) ==
    /\ req[r].pc = "idle" /\ Admitted(r, "models")
    /\ req' = [req EXCEPT ![r].pc = "done",
                          ![r].resp = Resp("json", Ok, Ok, NoId, "list")]
    /\ UNCHANGED <<states, nextId, createLog, truncations, conversation, taskStore, repair, clock, disk,
                   log, up, tasks, history, auth>>

\* What a request does after its route's function has begun.
Proceed(r) ==
    \/ \E status \in UpstreamStatuses : \E body \in ErrorBodies :
           UpstreamAnswer(r, status, body)
    \/ \E status \in GatewayStatuses \cup {InternalError} :
           UpstreamFails(r, status)
    \/ \E fault \in CollectFaults : CollectDone(r, fault)
    \/ CollectFails(r)
    \/ ClientNext(r)
    \/ ClientClose(r)
    \/ ClientCancel(r)
    \/ \E chunk \in ChunkKinds : RelayChunk(r, chunk)
    \/ RelayDone(r)
    \/ RelayEnds(r)
    \/ RelayRaises(r)

InitAuth ==
    /\ clock = 0
    /\ req = [r \in Reqs |-> InitReq]
    /\ states = StoreCreate(<<>>, SeedId, SeedMessages)
    /\ nextId = SeedId + 1
    /\ createLog = <<>>
    /\ truncations = NoTruncations
    /\ repair = [input |-> <<>>, runs |-> <<>>, raised |-> FALSE]
    /\ disk = File(states)
    /\ log = <<>>
    /\ up = TRUE
    /\ tasks = NoTasks
    /\ history = NoHistory
    /\ conversation = NoConversation
    /\ taskStore = NoTaskStore
    /\ auth \in {[NoAuth EXCEPT !.keys = k] : k \in KeySets}

\* One request with every header on every route behind the key.
NextAuth ==
    \/ \E path \in Paths, header \in Headers : Present(First, path, header)
    \/ ServeModels(First)
    \/ /\ Admitted(First, "chat")
       /\ \E stream, rejected \in BOOLEAN : ChatArrive(First, stream, rejected)
       /\ HandlerStep
    \/ /\ Admitted(First, "responses")
       /\ \E stream, store, rejected \in BOOLEAN :
              \E prev \in PreviousIds :
                  ResponsesArrive(First, stream, store, prev, rejected)
       /\ HandlerStep
    \/ Proceed(First) /\ HandlerStep

SpecAuth == InitAuth /\ [][NextAuth]_vars

\* The list the next run of the repair loop iterates over.
RepairCurrent ==
    IF repair.runs = <<>> THEN repair.input
    ELSE repair.runs[Len(repair.runs)]

\* The repair loop of chat_completions runs to its end. Assigning
\* modified_messages to request_data.messages only when a counter is
\* positive gives the same list as assigning it always: with both counters
\* at zero every message was appended as it was.
RepairReturns ==
    /\ ~repair.raised
    /\ Len(repair.runs) < MaxRuns
    /\ ~LookupRaises(RepairCurrent, truncations)
    /\ repair' = [repair EXCEPT
                      !.runs = Append(@, Repair(RepairCurrent, truncations))]
    /\ UNCHANGED <<req, states, nextId, createLog, truncations, conversation, taskStore>>
    /\ UNCHANGED <<clock, disk, log, up, tasks, history, auth>>

\* A lookup raises inside the loop: nothing around lines 197-247 catches
\* it, so the exception leaves the loop and the handler.
RepairRaises ==
    /\ ~repair.raised
    /\ Len(repair.runs) < MaxRuns
    /\ LookupRaises(RepairCurrent, truncations)
    /\ repair' = [repair EXCEPT !.raised = TRUE]
    /\ UNCHANGED <<req, states, nextId, createLog, truncations, conversation, taskStore>>
    /\ UNCHANGED <<clock, disk, log, up, tasks, history, auth>>

\* Every message list of a chat request against every registry.
InitRepair ==
    /\ req = [r \in Reqs |-> InitReq]
    /\ states = <<>>
    /\ nextId = SeedId + 1
    /\ createLog = <<>>
    /\ truncations \in Registries
    /\ repair \in {[input |-> m, runs |-> <<>>, raised |-> FALSE] :
                       m \in SeqsUpTo(RepairMessages, MaxLen)}
    /\ clock = 0
    /\ disk = File(states)
    /\ log = <<>>
    /\ up = TRUE
    /\ tasks = NoTasks
    /\ history = NoHistory
    /\ conversation = NoConversation
    /\ taskStore = NoTaskStore
    /\ auth = NoAuth

NextRepair == RepairReturns \/ RepairRaises

SpecRepair == InitRepair /\ [][NextRepair]_vars

\* What callers hand to create: messages, model, metadata.
CreateInputs ==
    { [messages |-> SeedMessages, model |-> "claude-sonnet-4",
       metadata |-> NoMetadata],
      [messages |-> InputOf(1) \o <<CollectedMessage>>, model |-> "claude-sonnet-4",
       metadata |-> Dict({<<"k", "v">>})] }

\* An entry of the call log: the call, what it returned, and for a get the
\* operation and id of the call before it.
Call(op, id, args, found, state) ==
    [op |-> op, id |-> id, args |-> args, found |-> found, state |-> state,
     after |-> <<>>]

\* The log of a run nobody observes.
NoLog == <<Call("unobserved", NoId, <<>>, FALSE, <<>>)>>

\* The call log after one more call: the call, where calls are observed.
Logged(entry) ==
    IF log = NoLog THEN NoLog
    ELSE <<[entry EXCEPT !.after = IF log = <<>> \/ entry.op # "get" THEN <<>>
                                  ELSE <<log[1].op, log[1].id>>]>>

\* A day passes.
Tick ==
    /\ clock < MaxClock
    /\ clock' = clock + 1
    /\ UNCHANGED <<req, states, nextId, createLog, truncations, conversation, taskStore, repair, disk,
                   log, up, tasks, history, auth>>

\* ResponseStateStore.create(messages, model, metadata)
CreateCall(args, ok) ==
    /\ up /\ nextId < SeedId + 2 + MaxCalls
    /\ states' = Create(states, nextId, args.messages, args.model,
                        args.metadata, clock)
    /\ nextId' = nextId + 1
    /\ disk' = Save(disk, states', ok)
    /\ log' = Logged(Call("create", nextId, args, TRUE,
                               states'[Len(states')]))
    /\ UNCHANGED <<req, createLog, truncations, conversation, taskStore, repair, clock, up, tasks, history, auth>>

\* ResponseStateStore.get(response_id)
GetCall(id, ok) ==
    /\ up
    /\ IF id \in StoredIds(states)
       THEN /\ states' = Get(states, id, clock)
            /\ disk' = Save(disk, states', ok)
            /\ log' = Logged(Call("get", id, <<>>, TRUE,
                                       states'[Len(states')]))
       ELSE /\ log' = Logged(Call("get", id, <<>>, FALSE, <<>>))
            /\ UNCHANGED <<states, disk>>
    /\ UNCHANGED <<req, nextId, createLog, truncations, conversation, taskStore, repair, clock, up, tasks, history, auth>>

\* ResponseStateStore.delete(response_id)
DeleteCall(id, ok) ==
    /\ up
    /\ IF id \in StoredIds(states)
       THEN /\ states' = Delete(states, id)
            /\ disk' = Save(disk, states', ok)
            /\ log' = Logged(Call("delete", id, <<>>, TRUE, <<>>))
       ELSE /\ log' = Logged(Call("delete", id, <<>>, FALSE, <<>>))
            /\ UNCHANGED <<states, disk>>
    /\ UNCHANGED <<req, nextId, createLog, truncations, conversation, taskStore, repair, clock, up, tasks, history, auth>>

\* ResponseStateStore.clear_all()
ClearAllCall(ok) ==
    /\ up
    /\ states' = <<>>
    /\ disk' = Save(disk, states', ok)
    /\ log' = Logged(Call("clear_all", NoId, <<>>, TRUE, <<>>))
    /\ UNCHANGED <<req, nextId, createLog, truncations, conversation, taskStore, repair, clock, up, tasks, history, auth>>

\* ResponseStateStore.list_all()
ListAllCall ==
    /\ up
    /\ log' = Logged(Call("list_all", NoId, <<>>, TRUE, ListAll(states)))
    /\ UNCHANGED <<req, states, nextId, createLog, truncations, conversation, taskStore, repair, clock,
                   disk, up, tasks, history, auth>>

\* ResponseStateStore.__init__ in a new process, the first one or the one
\* that follows a process that ended: _load, _cleanup_expired, and _save when
\* the sweep removed something. What the ended process held in memory is
\* replaced by what the file holds.
Construct(ok) ==
    /\ up' = TRUE
    /\ states' = CleanupExpired(Load(disk), clock)
    /\ disk' = IF states' # Load(disk) THEN Save(disk, states', ok) ELSE disk
    /\ log' = Logged(Call("construct", NoId, <<>>, TRUE, <<>>))
    /\ UNCHANGED <<req, nextId, createLog, truncations, conversation, taskStore, repair, clock, tasks,
                   history, auth>>

\* Records a file can hold before the first start, written by an earlier
\* run or by hand: one with both timestamps, and a second one with both,
\* with a last_accessed that is no ISO timestamp, with no last_accessed, or
\* with no timestamp at all.
FileRecord(id, created_at, last_accessed) ==
    [response_id |-> id, messages |-> SeedMessages, model |-> RequestModel,
     metadata |-> Dict({}), created_at |-> created_at,
     last_accessed |-> last_accessed]
SecondRecords ==
    { FileRecord(SeedId + 1, IsoFormat(DayBefore), IsoFormat(0)),
      FileRecord(SeedId + 1, IsoFormat(DayBefore), "yesterday"),
      FileRecord(SeedId + 1, IsoFormat(DayBefore), NoField),
      FileRecord(SeedId + 1, NoField, NoField) }
InitialFiles ==
    {NoFile, File(<<FileRecord(SeedId, IsoFormat(DayBefore), IsoFormat(DayBefore))>>)}
        \cup {File(<<FileRecord(SeedId, IsoFormat(DayBefore),
                                 IsoFormat(DayBefore)), x>>) :
                  x \in SecondRecords}

\* Before the first start: a file, or none, and no process.
BeforeStart ==
    /\ clock = 0
    /\ req = [r \in Reqs |-> InitReq]
    /\ states = <<>>
    /\ nextId = SeedId + 2
    /\ createLog = <<>>
    /\ truncations = NoTruncations
    /\ repair = [input |-> <<>>, runs |-> <<>>, raised |-> FALSE]
    /\ disk \in InitialFiles
    /\ up = FALSE
    /\ tasks = NoTasks
    /\ history = NoHistory
    /\ conversation = NoConversation
    /\ taskStore = NoTaskStore
    /\ auth = NoAuth

InitStore == BeforeStart /\ log = <<>>
InitRestarts == BeforeStart /\ log = NoLog

\* The calls on the store and the restarts of the process, with the given
\* arguments of create and the given outcomes of a snapshot write.
StoreStep(inputs, outcomes) ==
    \/ Tick
    \/ \E args \in inputs, ok \in outcomes : CreateCall(args, ok)
    \/ \E id \in StoredIds(states) \cup {InvalidId}, ok \in outcomes :
           GetCall(id, ok)
    \/ \E id \in StoredIds(states) \cup {InvalidId}, ok \in outcomes :
           DeleteCall(id, ok)
    \/ \E ok \in outcomes : ClearAllCall(ok)
    \/ ListAllCall
    \/ \E ok \in outcomes : Construct(ok)

\* The store on its own, called by anyone holding a reference to it and
\* observed call by call, on a disk that takes every write.
NextStore == StoreStep(CreateInputs, {TRUE})

\* The same calls, unobserved and with one conversation to store, on a disk
\* where a write can fail.
NextRestarts ==
    StoreStep({x \in CreateInputs : x.metadata = NoMetadata}, WriteOutcomes)

SpecStore == InitStore /\ [][NextStore]_vars

SpecRestarts == InitRestarts /\ [][NextRestarts]_vars

\* ------------------------------------------- the stores under the event loop
Suspends_Anywhere(step) == TRUE

\* Whether a task that has reached `step` of a store call can leave the
\* event loop to another task: the methods of both stores are plain
\* functions with no await in them, so only a task outside a call does.
Suspends(step) == step = "idle"

\* The event loop can run task t.
MayRun(t) == \A u \in Tasks \ {t} : Suspends(tasks[u].step)

\* The entry RequestHistory.record builds.
HistoryEntry(n, endpoint, status_code) ==
    [id |-> n, endpoint |-> endpoint, status_code |-> status_code]

\* What the handlers call on the two stores: the operation and its id.
StoreCalls ==
    {<<"create", nextId>>, <<"record", history.next>>}
        \cup {<<op, id>> : op \in {"get", "delete"}, id \in StoredIds(states)}

\* The first statements of a call, up to _save: create adds the record, get
\* stamps and moves it, delete removes it, record puts the entry first.
MutateStep(t, op, id) ==
    /\ tasks[t].step = "idle" /\ MayRun(t)
    /\ tasks' = [tasks EXCEPT ![t].op = op, ![t].id = id, ![t].step = "mutated"]
    /\ CASE op = "create" ->
               /\ nextId < SeedId + 1 + MaxCalls
               /\ states' = StoreCreate(states, nextId, InputOf(t))
               /\ nextId' = nextId + 1
               /\ UNCHANGED history
         [] op = "get" ->
               /\ states' = StoreGet(states, id)
               /\ UNCHANGED <<nextId, history, auth>>
         [] op = "delete" ->
               /\ states' = Delete(states, id)
               /\ UNCHANGED <<nextId, history, auth>>
         [] op = "record" ->
               /\ history.next <= MaxCalls
               /\ history' =
                      [history EXCEPT
                          !.records = AppendLeft(@,
                              HistoryEntry(id, "/v1/chat/completions", Ok)),
                          !.next = @ + 1]
               /\ UNCHANGED <<states, nextId>>
    /\ UNCHANGED <<req, createLog, truncations, conversation, taskStore, repair, clock, disk, log, up,
                   auth>>

\* _save, first half: json.dumps of the whole map, or of the whole list.
DumpStep(t) ==
    /\ tasks[t].step = "mutated" /\ MayRun(t)
    /\ tasks' = [tasks EXCEPT
                    ![t].step = "dumped",
                    ![t].snapshot = IF tasks[t].op = "record"
                                    THEN history.records ELSE states]
    /\ UNCHANGED <<req, states, nextId, createLog, truncations, conversation, taskStore, repair, clock,
                   disk, log, up, history, auth>>

\* _save, second half: write_text of the text dumped; the call returns.
WriteStep(t) ==
    /\ tasks[t].step = "dumped" /\ MayRun(t)
    /\ IF tasks[t].op = "record"
       THEN /\ history' = [history EXCEPT !.file = tasks[t].snapshot]
            /\ UNCHANGED disk
       ELSE /\ disk' = Save(disk, tasks[t].snapshot, TRUE)
            /\ UNCHANGED history
    /\ tasks' = [tasks EXCEPT
                    ![t] = NoCall(
                        IF tasks[t].op = "create"
                        THEN tasks[t].made \cup {tasks[t].id} ELSE tasks[t].made,
                        IF tasks[t].op = "delete"
                        THEN tasks[t].gone \cup {tasks[t].id} ELSE tasks[t].gone)]
    /\ UNCHANGED <<req, states, nextId, createLog, truncations, conversation, taskStore, repair, clock,
                   log, up, auth>>

\* Both stores constructed, the conversation store holding one record.
InitLoop ==
    /\ clock = 0
    /\ req = [r \in Reqs |-> InitReq]
    /\ states = StoreCreate(<<>>, SeedId, SeedMessages)
    /\ nextId = SeedId + 1
    /\ createLog = <<>>
    /\ truncations = NoTruncations
    /\ repair = [input |-> <<>>, runs |-> <<>>, raised |-> FALSE]
    /\ disk = File(states)
    /\ log = <<>>
    /\ up = TRUE
    /\ tasks = NoTasks
    /\ history = NoHistory
    /\ conversation = NoConversation
    /\ taskStore = NoTaskStore
    /\ auth = NoAuth

NextLoop ==
    \E t \in Tasks :
        \/ \E c \in StoreCalls : MutateStep(t, c[1], c[2])
        \/ DumpStep(t)
        \/ WriteStep(t)

SpecLoop == InitLoop /\ [][NextLoop]_vars

\* ------------------------------------------------- the request history
\* What a call on the history returned.
Returned(op, args, result) == <<[op |-> op, args |-> args, result |-> result]>>

\* RequestHistory.record
RecordCall(status_code, ok) ==
    /\ history.next <= MaxRecords
    /\ LET entry == HistoryEntry(history.next, "/v1/chat/completions", status_code)
           h == [history EXCEPT !.records = AppendLeft(@, entry), !.next = @ + 1]
       IN  /\ history' = HistorySave(h, ok)
           /\ log' = Returned("record", <<>>, entry)
    /\ UNCHANGED <<req, states, nextId, createLog, truncations, conversation, taskStore, repair, clock,
                   disk, up, tasks, auth>>

\* GET /admin/history: RequestHistory.list(limit, offset)
HistoryListCall(limit, offset) ==
    /\ log' = Returned("list", [limit |-> limit, offset |-> offset],
                       HistoryList(history.records, limit, offset))
    /\ UNCHANGED <<req, states, nextId, createLog, truncations, conversation, taskStore, repair, clock,
                   disk, up, tasks, history, auth>>

\* DELETE /admin/history: RequestHistory.clear
HistoryClearCall(ok) ==
    /\ history' = HistorySave([history EXCEPT !.records = <<>>], ok)
    /\ log' = Returned("clear", <<>>, Len(history.records))
    /\ UNCHANGED <<req, states, nextId, createLog, truncations, conversation, taskStore, repair, clock,
                   disk, up, tasks, auth>>

\* RequestHistory.__init__ in a new process: an empty deque, then _load.
HistoryConstruct ==
    /\ history' = [history EXCEPT !.records = HistoryLoad(history.file)]
    /\ log' = Returned("construct", <<>>, <<>>)
    /\ UNCHANGED <<req, states, nextId, createLog, truncations, conversation, taskStore, repair, clock,
                   disk, up, tasks, auth>>

\* The arguments of GET /admin/history: any integers.
Limits == {0, 1, MaxSize + 1}
Offsets == {-1, 0, 1}
\* The outcomes of the next write of request_history.json.
HistoryWriteOutcomes == IF history.lost < MaxLost THEN BOOLEAN ELSE {TRUE}

InitHistory ==
    /\ clock = 0
    /\ req = [r \in Reqs |-> InitReq]
    /\ states = <<>>
    /\ nextId = SeedId + 1
    /\ createLog = <<>>
    /\ truncations = NoTruncations
    /\ repair = [input |-> <<>>, runs |-> <<>>, raised |-> FALSE]
    /\ disk = NoFile
    /\ log = <<>>
    /\ up = TRUE
    /\ tasks = NoTasks
    /\ history = NoHistory
    /\ conversation = NoConversation
    /\ taskStore = NoTaskStore
    /\ auth = NoAuth

NextHistory ==
    \/ \E status_code \in {Ok, InternalError}, ok \in HistoryWriteOutcomes :
           RecordCall(status_code, ok)
    \/ \E limit \in Limits, offset \in Offsets : HistoryListCall(limit, offset)
    \/ \E ok \in HistoryWriteOutcomes : HistoryClearCall(ok)
    \/ HistoryConstruct

SpecHistory == InitHistory /\ [][NextHistory]_vars

\* --------------------------------------------- the id of a conversation
\* The messages a conversation can grow by.
Turns ==
    { Msg("user", <<"a">>), Msg("assistant", <<"b">>),
      Msg("user", LongText("y")), Msg("user", LongText("z")) }

\* The conversation gets one more message and generate_conversation_id is
\* called with the whole list.
AppendTurn(m) ==
    /\ Len(conversation.messages) < MaxTurns
    /\ LET messages == Append(conversation.messages, m)
       IN  conversation' =
               [messages |-> messages, id |-> GenerateConversationId(messages)]
    /\ UNCHANGED <<req, states, nextId, createLog, truncations, repair, clock,
                   disk, log, up, tasks, history, auth, taskStore>>

InitConversation ==
    /\ clock = 0
    /\ req = [r \in Reqs |-> InitReq]
    /\ states = <<>>
    /\ nextId = SeedId + 1
    /\ createLog = <<>>
    /\ truncations = NoTruncations
    /\ repair = [input |-> <<>>, runs |-> <<>>, raised |-> FALSE]
    /\ disk = NoFile
    /\ log = <<>>
    /\ up = TRUE
    /\ tasks = NoTasks
    /\ history = NoHistory
    /\ auth = NoAuth
    /\ conversation = NoConversation
    /\ taskStore = NoTaskStore

NextConversation == \E m \in Turns : AppendTurn(m)

SpecConversation == InitConversation /\ [][NextConversation]_vars

\* ------------------------------------------------------ the key manager
\* The outcomes of the next write of apikeys.json.
KeyWriteOutcomes == IF auth.lost < MaxLost THEN BOOLEAN ELSE {TRUE}

\* ApiKeyManager.__init__ in a new process: _load, and _save after seeding.
KeysConstruct(ok) ==
    /\ auth' = IF auth.file.exists THEN KeysLoad(auth)
               ELSE KeysSave(KeysLoad(auth), ok)
    /\ log' = Returned("construct", <<>>, <<>>)
    /\ UNCHANGED <<req, states, nextId, createLog, truncations, conversation, taskStore, repair, clock,
                   disk, up, tasks, history>>

\* GET /admin/apikeys: the entry made up for PROXY_API_KEY, then list_keys.
ListApiKeys ==
    /\ log' = Returned("list", <<>>,
                  <<[id |-> "env_default", key_preview |-> KeyPreview(ProxyApiKey),
                     enabled |-> TRUE]>> \o ListKeys(auth.keys))
    /\ UNCHANGED <<req, states, nextId, createLog, truncations, conversation, taskStore, repair, clock,
                   disk, up, tasks, history, auth>>

\* POST /admin/apikeys: create_key, which returns the key itself.
CreateKey(ok) ==
    /\ auth.next <= MaxKeys + 1
    /\ LET entry == ApiKeyEntry(auth.next, GenerateKey(auth.next), TRUE)
       IN  /\ auth' = KeysSave([auth EXCEPT !.keys = Append(@, entry),
                                            !.next = @ + 1], ok)
           /\ log' = Returned("create", <<>>, [id |-> entry.id, key |-> entry.key])
    /\ UNCHANGED <<req, states, nextId, createLog, truncations, conversation, taskStore, repair, clock,
                   disk, up, tasks, history>>

\* PUT /admin/apikeys/{key_id}: update_key; `enabled` is "none" when the
\* body has no such field (None). An unknown id is answered 404 with nothing done.
UpdateKey(id, enabled, ok) ==
    /\ LET i == KeyIndex(auth.keys, id)
       IN  IF i = 0
           THEN /\ auth' = auth
                /\ log' = Returned("update", <<id, enabled>>, [status |-> NotFound])
           ELSE LET keys == IF enabled = "none" THEN auth.keys
                            ELSE [auth.keys EXCEPT ![i].enabled = enabled = "true"]
                IN  /\ auth' = KeysSave([auth EXCEPT !.keys = keys], ok)
                    /\ log' = Returned("update", <<id, enabled>>, Masked(keys[i]))
    /\ UNCHANGED <<req, states, nextId, createLog, truncations, conversation, taskStore, repair, clock,
                   disk, up, tasks, history>>

\* DELETE /admin/apikeys/{key_id}: delete_key.
DeleteKey(id, ok) ==
    /\ LET i == KeyIndex(auth.keys, id)
       IN  IF i = 0
           THEN /\ auth' = auth
                /\ log' = Returned("delete", <<id>>, [status |-> NotFound])
           ELSE /\ auth' = KeysSave(
                       [auth EXCEPT !.keys = SelectSeq(@, LAMBDA e : e.id # id)], ok)
                /\ log' = Returned("delete", <<id>>, [status |-> 204])
    /\ UNCHANGED <<req, states, nextId, createLog, truncations, conversation, taskStore, repair, clock,
                   disk, up, tasks, history>>

\* The first start: no apikeys.json, the manager seeds itself from
\* PROXY_API_KEY.
InitKeys ==
    /\ clock = 0
    /\ req = [r \in Reqs |-> InitReq]
    /\ states = <<>>
    /\ nextId = SeedId + 1
    /\ createLog = <<>>
    /\ truncations = NoTruncations
    /\ repair = [input |-> <<>>, runs |-> <<>>, raised |-> FALSE]
    /\ disk = NoFile
    /\ log = <<>>
    /\ up = TRUE
    /\ tasks = NoTasks
    /\ history = NoHistory
    /\ conversation = NoConversation
    /\ taskStore = NoTaskStore
    /\ auth \in {KeysSave(KeysLoad(NoAuth), ok) : ok \in BOOLEAN}

KeyIds == 1..(MaxKeys + 1)

NextKeys ==
    \/ \E ok \in KeyWriteOutcomes : KeysConstruct(ok)
    \/ ListApiKeys
    \/ \E ok \in KeyWriteOutcomes : CreateKey(ok)
    \/ \E id \in KeyIds, enabled \in {"none", "true", "false"}, ok \in KeyWriteOutcomes :
           UpdateKey(id, enabled, ok)
    \/ \E id \in KeyIds, ok \in KeyWriteOutcomes : DeleteKey(id, ok)

SpecKeys == InitKeys /\ [][NextKeys]_vars

\* ------------------------------------------------------- the task store
\* The clock is read once more.
Now == taskStore.now + 1

\* POST /v1/tasks: a body TaskCreate turns away changes nothing.
CreateTask(body) ==
    /\ IF ~AcceptsTaskCreate(body)
       THEN /\ log' = Returned("create", <<>>, [status |-> "rejected"])
            /\ UNCHANGED taskStore
       ELSE /\ taskStore.next <= MaxTasks /\ taskStore.now < MaxNow
            /\ taskStore' =
                   [tasks |-> Append(taskStore.tasks,
                                     NewTask(taskStore.next, body, Now)),
                    next |-> taskStore.next + 1,
                    now |-> Now]
            /\ log' = Returned("create", <<>>, [status |-> "created"])
    /\ UNCHANGED <<req, states, nextId, createLog, truncations, conversation,
                   repair, clock, disk, up, tasks, history, auth>>

\* GET /v1/tasks/{task_id}
GetTask(id) ==
    /\ log' = Returned("get", id,
                       [status |-> IF TaskIndex(taskStore.tasks, id) = 0
                                   THEN "not_found" ELSE "ok"])
    /\ UNCHANGED <<req, states, nextId, createLog, truncations, conversation,
                   taskStore, repair, clock, disk, up, tasks, history, auth>>

\* PUT /v1/tasks/{task_id}
UpdateTask(id, body) ==
    /\ LET i == TaskIndex(taskStore.tasks, id)
       IN  IF ~AcceptsTaskCreate(body)
           THEN /\ log' = Returned("update", id, [status |-> "rejected"])
                /\ UNCHANGED taskStore
           ELSE IF i = 0
           THEN /\ log' = Returned("update", id, [status |-> "not_found"])
                /\ UNCHANGED taskStore
           ELSE /\ taskStore.now < MaxNow
                /\ taskStore' =
                       [taskStore EXCEPT
                            !.tasks[i] = UpdatedTask(@, body, Now),
                            !.now = Now]
                /\ log' = Returned("update", id, [status |-> "ok"])
    /\ UNCHANGED <<req, states, nextId, createLog, truncations, conversation,
                   repair, clock, disk, up, tasks, history, auth>>

\* PATCH /v1/tasks/{task_id}
PatchTask(id, body) ==
    /\ LET i == TaskIndex(taskStore.tasks, id)
       IN  IF ~AcceptsTaskPatch(body)
           THEN /\ log' = Returned("patch", id, [status |-> "rejected"])
                /\ UNCHANGED taskStore
           ELSE IF i = 0
           THEN /\ log' = Returned("patch", id, [status |-> "not_found"])
                /\ UNCHANGED taskStore
           ELSE /\ taskStore.now < MaxNow
                /\ taskStore' =
                       [taskStore EXCEPT
                            !.tasks[i] = PatchedTask(@, body, Now),
                            !.now = Now]
                /\ log' = Returned("patch", id, [status |-> "ok"])
    /\ UNCHANGED <<req, states, nextId, createLog, truncations, conversation,
                   repair, clock, disk, up, tasks, history, auth>>

\* DELETE /v1/tasks/{task_id}
DeleteTask(id) ==
    /\ LET i == TaskIndex(taskStore.tasks, id)
       IN  IF i = 0
           THEN /\ log' = Returned("delete", id, [status |-> "not_found"])
                /\ UNCHANGED taskStore
           ELSE /\ taskStore' =
                       [taskStore EXCEPT
                            !.tasks = SubSeq(@, 1, i - 1)
                                      \o SubSeq(@, i + 1, Len(@))]
                /\ log' = Returned("delete", id, [status |-> "deleted"])
    /\ UNCHANGED <<req, states, nextId, createLog, truncations, conversation,
                   repair, clock, disk, up, tasks, history, auth>>

\* GET /v1/tasks with the query the route admits.
ListTasks(status, priority, page, page_size, sort_by, sort_order) ==
    /\ log' = Returned("list",
                       [status |-> status, priority |-> priority,
                        page |-> page, page_size |-> page_size,
                        sort_by |-> sort_by, sort_order |-> sort_order],
                       TaskList(taskStore.tasks, status, priority, page,
                                page_size, sort_by, sort_order))
    /\ UNCHANGED <<req, states, nextId, createLog, truncations, conversation,
                   taskStore, repair, clock, disk, up, tasks, history, auth>>

\* The bodies sent, one field varied at a time: titles at and beyond both
\* length bounds, fields left out, null, valid and invalid.
CreateBodies ==
    {TaskBody(t, Unset, Unset) :
        t \in {Text(TitleMin - 1), Text(TitleMin), Text(TitleMax),
               Text(TitleMax + 1), NullTitle}}
    \cup {TaskBody(Text(TitleMin), s, Unset) : s \in {Null, "completed"}}
    \cup {TaskBody(Text(TitleMin), Unset, p) : p \in {Null, "high", "low"}}
PatchBodies ==
    {TaskBody(t, Unset, Unset) :
        t \in {UnsetTitle, NullTitle, Text(TitleMin), Text(TitleMax + 1)}}
    \cup {TaskBody(UnsetTitle, s, Unset) : s \in {Null, "in_progress"}}
    \cup {TaskBody(UnsetTitle, Unset, p) : p \in {Null, "low", "urgent"}}
TaskIds == 1..(MaxTasks + 1)
Pages == {1, 2}
PageSizes == {1}

InitTasks ==
    /\ clock = 0
    /\ req = [r \in Reqs |-> InitReq]
    /\ states = <<>>
    /\ nextId = SeedId + 1
    /\ createLog = <<>>
    /\ truncations = NoTruncations
    /\ repair = [input |-> <<>>, runs |-> <<>>, raised |-> FALSE]
    /\ disk = NoFile
    /\ log = <<>>
    /\ up = TRUE
    /\ tasks = NoTasks
    /\ history = NoHistory
    /\ conversation = NoConversation
    /\ taskStore = NoTaskStore
    /\ auth = NoAuth

NextTasks ==
    \/ \E body \in CreateBodies : CreateTask(body)
    \/ \E id \in TaskIds : GetTask(id)
    \/ \E id \in TaskIds, body \in CreateBodies : UpdateTask(id, body)
    \/ \E id \in TaskIds, body \in PatchBodies : PatchTask(id, body)
    \/ \E id \in TaskIds : DeleteTask(id)
    \/ \E status \in {Unset, "pending"}, priority \in {Unset, "high"},
          page \in Pages, page_size \in PageSizes,
          sort_by \in {"created_at", "updated_at", "priority"},
          sort_order \in {"asc", "desc"} :
           ListTasks(status, priority, page, page_size, sort_by, sort_order)

SpecTasks == InitTasks /\ [][NextTasks]_vars

\* ------------------------------------------------------------ properties
Is2xx(status) == status \in 200..299
IsTerminal(f) == f.type \in {"[DONE]", "response.done"}
Terminals(r) == Len(SelectSeq(req[r].frames, IsTerminal))
\* A streaming response was handed to the client and its wrapper is over.
StreamOver(r) ==
    req[r].resp.kind = "stream" /\ req[r].pc = "done" /\ req[r].gen = "finished"
\* The request went as far as the upstream call.
Called(r) == req[r].client # "none"
\* The request ended in one of the failures of the error taxonomy.
Failed(r) ==
    /\ req[r].pc = "done"
    /\ \/ req[r].resp.kind \in {"http_exception", "json_error"}
       \/ req[r].streaming_error

\* C1: a frame is only ever produced, and a stream only ever started, for a
\* request whose upstream status was received and found accepted; a request
\* the upstream did not accept (a non-200 status, or a failed call) ends with
\* one JSON error response, no frame and no wrapper.
C1_StreamOnlyAfterAcceptance ==
    \A r \in Reqs :
        /\ (req[r].frames # <<>> \/ req[r].gen # "none" \/ req[r].resp.kind = "stream")
               => (req[r].stream /\ req[r].status_code = Ok)
        /\ (req[r].status_code \notin {0, Ok})
               => /\ req[r].pc = "done"
                  /\ req[r].resp.kind = "json_error"
                  /\ req[r].frames = <<>> /\ req[r].gen = "none"
        /\ req[r].resp.kind = "http_exception"
               => (req[r].frames = <<>> /\ req[r].gen = "none")

C1_Witness ==
    \E r \in Reqs :
        /\ req[r].stream /\ req[r].endpoint = "responses"
        /\ req[r].status_code = 429
        /\ req[r].resp.kind = "json_error" /\ req[r].frames = <<>>

\* C2: when a streaming /v1/responses request with store=true has ended
\* without a translation exception, the id of its response.done event is the
\* id under which the turn is stored.
C2_DoneIdIsStoredId ==
    \A r \in Reqs :
        (/\ req[r].endpoint = "responses" /\ req[r].store
         /\ StreamOver(r) /\ ~req[r].streaming_error)
            => \A i \in 1..Len(req[r].frames) :
                   req[r].frames[i].type = "response.done"
                       => /\ req[r].frames[i].id \in StoredIds(states)
                          /\ req[r].created = <<req[r].frames[i].id>>

\* C3: however an accepted streaming response ends (completion, translation
\* exception, the client going away, also before the first frame), the
\* upstream connection has been closed.
C3_StreamEndClosesUpstream ==
    \A r \in Reqs : StreamOver(r) => req[r].closes >= 1

\* C4: a request that reached the upstream call has, once it is over, closed
\* its upstream connection handle exactly once.
C4_ClosedExactlyOnce ==
    \A r \in Reqs : (Called(r) /\ req[r].pc = "done") => req[r].closes = 1

\* C5: a stream without translation exception never carries more than one
\* terminal event, and one that ended without the client going away carries
\* exactly one.
C5_OneTerminalEvent ==
    \A r \in Reqs :
        (req[r].resp.kind = "stream" /\ ~req[r].streaming_error)
            => /\ Terminals(r) <= 1
               /\ (StreamOver(r) /\ ~req[r].cancelled) => Terminals(r) = 1

C5_Witness ==
    \E r \in Reqs :
        /\ req[r].endpoint = "responses" /\ StreamOver(r)
        /\ ~req[r].cancelled /\ ~req[r].streaming_error
        /\ Len(req[r].frames) > 1 /\ Terminals(r) = 1

\* C6: a streaming /v1/responses request with store=true has, once its
\* stream is over, stored its turn if and only if the stream did not end in a
\* translation exception.
C6_PersistedIffNoException ==
    \A r \in Reqs :
        (req[r].endpoint = "responses" /\ req[r].store /\ StreamOver(r))
            => (req[r].created # <<>> <=> ~req[r].streaming_error)

\* C7: when the client has cancelled a stream, on either endpoint, no frame
\* is emitted after the cancellation, the upstream connection is closed, a
\* history entry is recorded, the debug-log buffers are flushed or discarded,
\* and no exception other than the cancellation itself leaves the wrapper.
C7_CancellationReleases ==
    \A r \in Reqs :
        (StreamOver(r) /\ req[r].cancelled)
            => /\ Len(req[r].frames) = req[r].cancel_at
               /\ req[r].closes >= 1
               /\ req[r].hist # <<>>
               /\ req[r].dbg # <<>>
               /\ req[r].raised # "error"

\* Two requests continue the same conversation.
SameConversation(a, b) ==
    /\ req[a].previous_response_id # NoId
    /\ req[a].previous_response_id = req[b].previous_response_id

\* C8 as stated: turns of one conversation are stored in the order in which
\* their requests arrived (requests arrive in the order of their numbers).
C8_ArrivalOrder ==
    \A i, j \in 1..Len(createLog) :
        (i < j /\ SameConversation(createLog[i], createLog[j]))
            => createLog[i] < createLog[j]

\* C8 as amended: a turn is stored only once its own stream or collection is
\* over and its upstream connection closed, and it is stored once; the order
\* of concurrent turns is the order in which they end.
C8_StoredAfterOwnEnd ==
    \A r \in Reqs :
        req[r].created # <<>>
            => /\ req[r].pc = "done"
               /\ req[r].gen \in {"none", "finished"}
               /\ req[r].closes >= 1
               /\ Len(req[r].created) = 1
               /\ req[r].created[1] \in StoredIds(states)

C8_Witness ==
    /\ Len(createLog) = 2
    /\ createLog[1] > createLog[2]
    /\ SameConversation(createLog[1], createLog[2])

\* C9: every failed request (400, 404, upstream error, internal error,
\* stream fault) has a history record and no open upstream connection.
C9_FailuresRecordedAndClosed ==
    \A r \in Reqs :
        Failed(r) => /\ req[r].hist # <<>>
                     /\ Called(r) => req[r].closes >= 1

\* C10: after a non-2xx upstream answer the connection is closed, the answer
\* is the JSON error envelope with the upstream status as HTTP status and as
\* error.code, and the history record carries that status.
C10_UpstreamStatusMirrored ==
    \A r \in Reqs :
        (req[r].status_code # 0 /\ ~Is2xx(req[r].status_code))
            => /\ req[r].closes = 1
               /\ req[r].resp.kind = "json_error"
               /\ req[r].resp.status = req[r].status_code
               /\ req[r].resp.code = req[r].status_code
               /\ Len(req[r].hist) = 1
               /\ req[r].hist[1].status_code = req[r].status_code
               /\ req[r].hist[1].stream = req[r].stream

C10_Witness ==
    \E r \in Reqs :
        /\ req[r].status_code = 503 /\ req[r].stream
        /\ req[r].resp.message = "error_text"
        /\ req[r].resp.code = 503

\* C11: a /v1/responses request whose previous_response_id is given and is
\* not a key of the store is answered 404 with the detail "Previous response
\* ID not found: <id>"; no upstream connection is made for it and the store
\* is left as it was.
C11_UnknownPreviousIdRejected ==
    [][\A r \in Reqs :
          (/\ req[r].pc = "idle" /\ req'[r].pc # "idle"
           /\ req'[r].endpoint = "responses"
           /\ req'[r].previous_response_id # NoId
           /\ req'[r].previous_response_id \notin StoredIds(states))
              => /\ req'[r].pc = "done"
                 /\ req'[r].resp.kind = "http_exception"
                 /\ req'[r].resp.status = NotFound
                 /\ req'[r].resp.message =
                        "Previous response ID not found: "
                            \o ToString(req'[r].previous_response_id)
                 /\ ~Called(r)'
                 /\ req'[r].status_code = 0
                 /\ states' = states]_vars

\* C12: a request that reached the upstream call sends on a connection of
\* its own if and only if it is streaming and on the shared pooled connection
\* otherwise, on either endpoint; the connection of a streaming request is
\* the connection of no other request.
C12_ConnectionPolicy ==
    \A r \in Reqs :
        Called(r)
            => /\ req[r].client = "per_request" <=> req[r].stream
               /\ req[r].conn = SharedConn <=> ~req[r].stream
               /\ req[r].stream
                      => \A p \in Reqs \ {r} : req[p].conn # req[r].conn

C12_Witness ==
    \E r, p \in Reqs :
        /\ req[r].pc = "calling" /\ req[p].pc = "calling"
        /\ req[r].endpoint = "chat" /\ req[p].endpoint = "responses"
        /\ req[r].stream /\ req[p].stream
        /\ req[r].conn # req[p].conn
        /\ req[r].conn # SharedConn /\ req[p].conn # SharedConn

\* C13: the messages a /v1/responses request hands to the payload builder
\* are the messages of the record its previous_response_id names, as stored
\* when the request arrived, followed by its own input messages (role and
\* content), in order; without previous_response_id they are the input
\* messages alone.
C13_BuilderMessages ==
    [][\A r \in Reqs :
          (/\ req[r].pc = "idle" /\ req'[r].pc # "idle"
           /\ req'[r].endpoint = "responses")
              => LET prev == req'[r].previous_response_id
                     out == req'[r].messages
                     inp == RequestInput(r)
                     old == IF prev = NoId THEN <<>>
                            ELSE Lookup(states, prev).messages
                 IN  (prev = NoId \/ prev \in StoredIds(states))
                        => /\ Len(out) = Len(old) + Len(inp)
                           /\ \A i \in 1..Len(old) : out[i] = old[i]
                           /\ \A i \in 1..Len(inp) :
                                  /\ out[Len(old) + i].role = inp[i].role
                                  /\ out[Len(old) + i].content = inp[i].content
                                  /\ DOMAIN out[Len(old) + i] = {"role", "content"}]_vars

C13_Witness ==
    \E r, p \in Reqs :
        /\ r # p
        /\ req[r].created # <<>>
        /\ req[p].previous_response_id = req[r].created[1]
        /\ req[p].messages = req[r].messages \o <<CollectedMessage>> \o InputOf(p)
        /\ Len(req[p].messages) = 3

\* The records stored under an id.
RecordsOf(id) == SelectSeq(states, LAMBDA x : x.response_id = id)

\* C14: a non-streaming /v1/responses request with store=true that was
\* answered 200 has created exactly one record; its messages are the
\* previous record's messages, the request's input and the assembled
\* assistant message, in that order; the id of the JSON body is the key of
\* that record, and a request that names it as previous_response_id is not
\* answered 404.
C14_StoredTurnIsAnswered ==
    \A r \in Reqs :
        (/\ req[r].endpoint = "responses" /\ ~req[r].stream /\ req[r].store
         /\ req[r].pc = "done" /\ req[r].resp.kind = "json")
            => LET id == req[r].resp.id
                   prev == req[r].previous_response_id
                   old == IF prev = NoId THEN <<>>
                          ELSE Lookup(states, prev).messages
               IN  /\ req[r].created = <<id>>
                   /\ Len(RecordsOf(id)) = 1
                   /\ RecordsOf(id)[1].messages =
                          old \o InputOf(r) \o <<CollectedMessage>>
                   /\ \A p \in Reqs :
                          req[p].previous_response_id = id
                              => req[p].resp.status # NotFound

C14_Witness ==
    \E r, p \in Reqs :
        /\ ~req[r].stream /\ req[r].store /\ req[r].resp.kind = "json"
        /\ req[r].previous_response_id = SeedId
        /\ Len(Lookup(states, req[r].resp.id).messages) = 4
        /\ req[p].previous_response_id = req[r].resp.id
        /\ req[p].pc = "calling"

\* The list run k of the repair loop was given.
RunInput(k) == IF k = 1 THEN repair.input ELSE repair.runs[k - 1]
\* The message is a tool result whose tool-call id has a truncation record.
TruncatedTool(m) ==
    m.role = "tool" /\ m.tool_call_id # "" /\ m.tool_call_id \in truncations.tools
\* The message is an assistant message whose text has a truncation record.
TruncatedAssistant(m) ==
    /\ m.role = "assistant" /\ m.content.type = "str" /\ m.content.text # ""
    /\ m.content.text \in truncations.contents
\* Where message i of the input stands in the output: moved right by one
\* for every truncated assistant message before it.
Pos(inp, i) ==
    i + Cardinality({j \in 1..(i - 1) : TruncatedAssistant(inp[j])})

\* C15: the output of the repair is the input in its order: no message is
\* dropped, a message that is not a truncated tool result is emitted as it
\* is, a truncated tool result keeps its place, and the only additions are
\* one user message right after each truncated assistant message.
C15_RepairKeepsEveryMessage ==
    \A k \in 1..Len(repair.runs) :
        LET inp == RunInput(k)
            out == repair.runs[k]
        IN  /\ Len(out) = Len(inp) + Cardinality({j \in 1..Len(inp) :
                                                     TruncatedAssistant(inp[j])})
            /\ \A i \in 1..Len(inp) :
                   /\ out[Pos(inp, i)].role = inp[i].role
                   /\ out[Pos(inp, i)].tool_call_id = inp[i].tool_call_id
                   /\ out[Pos(inp, i)].name = inp[i].name
                   /\ ~TruncatedTool(inp[i]) => out[Pos(inp, i)] = inp[i]
                   /\ TruncatedAssistant(inp[i])
                          => out[Pos(inp, i) + 1].role = "user"

C15_Witness ==
    /\ Len(repair.input) = 2 /\ Len(repair.runs) >= 1
    /\ TruncatedAssistant(repair.input[1])
    /\ TruncatedTool(repair.input[2])
    /\ Len(repair.runs[1]) = 3
    /\ repair.runs[1][3].role = "tool"
    /\ repair.runs[1][3] # repair.input[2]

\* C16: a second run of the repair over the output of the first, against
\* the same registry, returns that output unchanged.
C16_RepairIdempotent ==
    Len(repair.runs) >= 2 => repair.runs[2] = repair.runs[1]

\* C17: the repair never fails: no exception leaves it, and with a lookup
\* that raises its output is its input.
C17_LookupErrorsSwallowed ==
    /\ ~repair.raised
    /\ (truncations.raises # "none" /\ repair.runs # <<>>)
           => repair.runs[1] = repair.input

\* C18: a run of the repair puts, at the place of each truncated tool
\* result, a message whose content is the notice, the separator, the label
\* "Original tool result:" and the original content (as str() renders it
\* when it is not a string), with every other field as in the original; the
\* list it was given and the messages in it are left as they were.
C18_ToolResultRewritten ==
    [][Len(repair'.runs) > Len(repair.runs)
          => LET inp == RepairCurrent
                 out == repair'.runs[Len(repair'.runs)]
             IN  /\ repair'.input = repair.input
                 /\ SubSeq(repair'.runs, 1, Len(repair.runs)) = repair.runs
                 /\ \A i \in 1..Len(inp) :
                        TruncatedTool(inp[i])
                            => LET new == out[Pos(inp, i)]
                                   original ==
                                       CASE inp[i].content.type = "str"
                                                -> inp[i].content.text
                                         [] inp[i].content.type = "none"
                                                -> "None"
                                         [] OTHER -> Format(inp[i].content)
                               IN  /\ new.role = "tool"
                                   /\ new.tool_call_id = inp[i].tool_call_id
                                   /\ new.name = inp[i].name
                                   /\ new.content.type = "str"
                                   /\ new.content.text =
                                          ToolNotice(inp[i].tool_call_id)
                                          \o "\n\n---\n\nOriginal tool result:\n"
                                          \o original]_vars

C18_Witness ==
    /\ Len(repair.input) = 2 /\ Len(repair.runs) >= 1
    /\ repair.input[2] = ChatMessage("tool", Str("r1"), "call_1", "")
    /\ "call_1" \in truncations.tools
    /\ repair.runs[1][2].content.text =
           "[API Limitation] The tool call call_1 was truncated."
           \o "\n\n---\n\nOriginal tool result:\nr1"

\* C19: a truncated assistant message is emitted as it is, the user message
\* with the fixed notice comes right after it, and the message after that
\* is the next message of the input (or the output ends there).
C19_NoticeAfterTruncatedAssistant ==
    \A k \in 1..Len(repair.runs) :
        LET inp == RunInput(k)
            out == repair.runs[k]
        IN  \A i \in 1..Len(inp) :
                TruncatedAssistant(inp[i])
                    => LET at == Pos(inp, i)
                       IN  /\ out[at] = inp[i]
                           /\ out[at + 1] =
                                  ChatMessage("user", Str(UserNotice), "", "")
                           /\ IF i = Len(inp)
                              THEN Len(out) = at + 1
                              ELSE /\ Pos(inp, i + 1) = at + 2
                                   /\ out[at + 2].role = inp[i + 1].role
                                   /\ out[at + 2].name = inp[i + 1].name
                                   /\ out[at + 2].tool_call_id
                                          = inp[i + 1].tool_call_id
                                   /\ ~TruncatedTool(inp[i + 1])
                                          => out[at + 2] = inp[i + 1]

C19_Witness ==
    /\ Len(repair.runs) >= 1
    /\ repair.input = << ChatMessage("assistant", Str("cut"), "", "bot"),
                         ChatMessage("user", Str("hi"), "", "") >>
    /\ repair.runs[1] = << ChatMessage("assistant", Str("cut"), "", "bot"),
                           SyntheticUserMsg,
                           ChatMessage("user", Str("hi"), "", "") >>

\* C20: a get that directly follows the create that returned its id finds
\* the record, with the messages and the model given to create, the metadata
\* given to create (the empty map when none was given), and a last_accessed
\* that is not before created_at.
C20_CreateThenGet ==
    [][(/\ log # <<>> /\ log' # <<>>
        /\ log[1].op = "create" /\ log'[1].op = "get"
        /\ log'[1].id = log[1].id)
          => /\ log'[1].found
             /\ log'[1].state.messages = log[1].args.messages
             /\ log'[1].state.model = log[1].args.model
             /\ log'[1].state.metadata.items = log[1].args.metadata.items
             /\ Parseable(log'[1].state.created_at)
             /\ Parseable(log'[1].state.last_accessed)
             /\ FromIsoFormat(log'[1].state.last_accessed)
                    >= FromIsoFormat(log'[1].state.created_at)]_vars

C20_Witness ==
    /\ log # <<>>
    /\ log[1].op = "get" /\ log[1].found
    /\ log[1].after = <<"create", SeedId + 2>>
    /\ log[1].state.response_id = SeedId + 2
    /\ log[1].state.metadata = Dict({<<"k", "v">>})
    /\ Len(log[1].state.messages) = 2
    /\ FromIsoFormat(log[1].state.last_accessed)
           > FromIsoFormat(log[1].state.created_at)

\* The step is a start of the process.
IsConstruct == \E ok \in BOOLEAN : Construct(ok)
\* The record of id is held before and after the step with an older
\* last_accessed after it.
AccessedEarlier(id) ==
    /\ id \in StoredIds(states) /\ id \in StoredIds(states')
    /\ Lookup(states, id).last_accessed # NoField
    /\ \/ Lookup(states', id).last_accessed = NoField
       \/ FromIsoFormat(Lookup(states', id).last_accessed)
              < FromIsoFormat(Lookup(states, id).last_accessed)
\* The record of id is held before and after the step with the same
\* created_at.
SameCreatedAt(id) ==
    (id \in StoredIds(states) /\ id \in StoredIds(states'))
        => Lookup(states', id).created_at = Lookup(states, id).created_at
Ids == SeedId..(SeedId + 2 + MaxCalls)

\* C21 as stated: over the calls on the store and the restarts, no record's
\* created_at changes and no record's last_accessed gets older.
C21_TimestampsNeverGoBack ==
    [][\A id \in Ids : SameCreatedAt(id) /\ ~AccessedEarlier(id)]_vars

\* C21, amended: no record's created_at changes, and a record's
\* last_accessed gets older only at a start of the process that follows a
\* failed snapshot write, where it becomes the value the file holds.
C21_TimestampsGoBackOnlyAfterLostWrite ==
    [][\A id \in Ids :
          /\ SameCreatedAt(id)
          /\ AccessedEarlier(id)
                => /\ IsConstruct
                   /\ disk.lost > 0
                   /\ Lookup(states', id) = Lookup(Load(disk), id)]_vars

\* A get has moved a record's last_accessed forward and the write of it
\* failed: the file holds the older value.
C21_Witness ==
    /\ up /\ disk.lost > 0
    /\ \E id \in StoredIds(states) \cap StoredIds(Load(disk)) :
           /\ Lookup(states, id).created_at = Lookup(Load(disk), id).created_at
           /\ Lookup(Load(disk), id).last_accessed # NoField
           /\ FromIsoFormat(Lookup(states, id).last_accessed)
                  > FromIsoFormat(Lookup(Load(disk), id).last_accessed)

\* The step is a delete of id, a clear_all, a get of id.
IsDelete(id) == \E ok \in BOOLEAN : DeleteCall(id, ok)
IsClearAll == \E ok \in BOOLEAN : ClearAllCall(ok)
IsGet(id) == \E ok \in BOOLEAN : GetCall(id, ok)
\* The store holds a record of id: the running process does, or the file
\* does when no process runs.
Held(id) ==
    IF up THEN id \in StoredIds(states) ELSE id \in StoredIds(Load(disk))
\* The record of id is held before the step and not after it.
Disappears(id) == Held(id) /\ ~Held(id)'
\* The file holds a record of id whose last_accessed (its created_at when it
\* has none) reads as a time before the cutoff; one where it does not read
\* as a time.
OlderInFile(id) ==
    /\ id \in StoredIds(Load(disk))
    /\ Parseable(EffectiveTimestamp(Lookup(Load(disk), id)))
    /\ FromIsoFormat(EffectiveTimestamp(Lookup(Load(disk), id)))
           < clock - MaxAgeDays
UnreadableInFile(id) ==
    /\ id \in StoredIds(Load(disk))
    /\ ~Parseable(EffectiveTimestamp(Lookup(Load(disk), id)))
\* A start of the process finds the record of id too old.
SweptAsOld(id) == Held(id) /\ OlderInFile(id) /\ IsConstruct
\* A start of the process finds no time in the record of id.
SweptAsUnreadable(id) == Held(id) /\ UnreadableInFile(id) /\ IsConstruct
\* The process starts again from a file that lacks the record of id, the
\* write of it having failed.
LostWithWrite(id) ==
    /\ up /\ disk.lost > 0
    /\ id \in StoredIds(states) /\ id \notin StoredIds(Load(disk))
    /\ IsConstruct
\* A delete or a clear_all takes the record of id away.
ExplicitlyDeleted(id) == up /\ Held(id) /\ (IsDelete(id) \/ IsClearAll)
\* A get of a record held leaves it held, accessed now.
GetKeeps(id) ==
    (up /\ Held(id) /\ IsGet(id))
        => /\ StoredIds(states') = StoredIds(states)
           /\ Lookup(states', id).last_accessed = IsoFormat(clock)

\* C22 as stated: a record disappears exactly when a sweep finds its
\* last_accessed before the cutoff or when it is deleted (delete, clear_all),
\* and a get removes nothing.
C22_RemovedOnlyByAgeOrDelete ==
    [][\A id \in StoredIds(states) \cup StoredIds(Load(disk)) :
          /\ Disappears(id) <=> (SweptAsOld(id) \/ ExplicitlyDeleted(id))
          /\ GetKeeps(id)]_vars

\* C22, amended: a record goes out of memory exactly when a sweep finds its
\* timestamp before the cutoff or unreadable, when it is deleted (delete,
\* clear_all), or when the process starts again from a file that does not
\* hold it because a snapshot write failed; a get removes nothing.
C22_RemovedOnlyBySweepDeleteOrLostWrite ==
    [][\A id \in StoredIds(states) \cup StoredIds(Load(disk)) :
          /\ Disappears(id)
                <=> \/ SweptAsOld(id)
                    \/ ExplicitlyDeleted(id)
                    \/ SweptAsUnreadable(id)
                    \/ LostWithWrite(id)
          /\ GetKeeps(id)]_vars

\* A record was created, the write of it failed, and the process has
\* started again from the file: the record is in neither.
C22_Witness ==
    /\ up /\ nextId = SeedId + 3 /\ disk.lost = 1
    /\ states # <<>> /\ states = Load(disk)
    /\ SeedId + 2 \notin StoredIds(states)

\* The records of st with an id in ids, in the order of st.
Restrict(st, ids) == SelectSeq(st, LAMBDA x : x.response_id \in ids)

\* C23: the sweep of a start removes a record of the file if and only if
\* its last_accessed (created_at when it has none) is before now minus
\* max_age_days or is no readable time; a record at the cutoff stays; what
\* stays is loaded as the file holds it, in the file's order; and the file
\* is written only when a record was removed.
C23_StartupSweep ==
    [][IsConstruct
          => /\ \A id \in StoredIds(Load(disk)) :
                    id \notin StoredIds(states')
                        <=> (OlderInFile(id) \/ UnreadableInFile(id))
             /\ states' = Restrict(Load(disk), StoredIds(states'))
             /\ states' = Load(disk) => disk' = disk
             /\ disk' # disk
                    => (disk' = File(states') \/ disk'.lost = disk.lost + 1)]_vars

\* The first start found a record at the cutoff and one with no readable
\* time: it holds the first only, and the write of the swept file failed.
C23_Witness ==
    /\ up /\ clock = 0 /\ nextId = SeedId + 2 /\ disk.lost = 1
    /\ Len(states) = 1 /\ Len(Load(disk)) = 2
    /\ FromIsoFormat(states[1].last_accessed) = clock - MaxAgeDays
    /\ states[1] = Load(disk)[1]
    /\ UnreadableInFile(Load(disk)[2].response_id)

\* The records of st other than the one of id, in the order of st.
Others(st, id) == SelectSeq(st, LAMBDA x : x.response_id # id)

IsCreate == \E args \in CreateInputs, ok \in BOOLEAN : CreateCall(args, ok)
\* The step is a call that changes the map: a create, a get or a delete of
\* an id held, a clear_all.
IsMutatingCall ==
    \/ IsCreate
    \/ IsClearAll
    \/ \E id \in StoredIds(states) : IsGet(id) \/ IsDelete(id)
\* The file is as a store holding st writes it.
Persisted(file, st) == file.exists /\ file.states = st

InCall == {t \in Tasks : tasks[t].step # "idle"}
\* The ids the completed creates have returned, the ids the completed
\* deletes have removed.
Made == UNION {tasks[t].made : t \in Tasks}
Gone == UNION {tasks[t].gone : t \in Tasks}

\* C26: with the calls of concurrent requests running as tasks of the event
\* loop, at most one task is inside a call of either store at a time; the
\* text a call is about to write is the whole of what memory holds; and
\* between calls each file holds what memory holds, memory holding every
\* record created and not deleted and every history entry recorded.
C26_StoreCallsSerialized ==
    /\ Cardinality(InCall) <= 1
    /\ \A t \in Tasks :
          tasks[t].step = "dumped"
              => tasks[t].snapshot = IF tasks[t].op = "record"
                                     THEN history.records ELSE states
    /\ InCall = {}
          => /\ disk = File(states)
             /\ history.file = history.records
             /\ StoredIds(states) = ({SeedId} \cup Made) \ Gone
             /\ {history.records[i].id : i \in 1..Len(history.records)}
                    = 1..(history.next - 1)

\* Calls of both tasks have completed: one has created a record, the other
\* has deleted one and recorded a history entry.
C26_Witness ==
    /\ InCall = {}
    /\ tasks[1].made # {} /\ tasks[2].gone # {}
    /\ history.records # <<>>
    /\ states # <<>>

IsDelta(f) ==
    f.type \in {"response.text.delta", "response.function_call_arguments.delta"}
IsItemAdded(f) == f.type = "response.output_item.added"
\* The stream of r ended neither by the client going away nor by an
\* exception.
Completed(r) ==
    StreamOver(r) /\ ~req[r].cancelled /\ ~req[r].streaming_error

\* C27: on a Responses stream no more than one response.output_item.added
\* is emitted; every response.text.delta and every
\* response.function_call_arguments.delta has it before it; no frame follows
\* a response.done; and a stream that ended without cancellation and
\* without exception ends with response.done.
C27_ResponsesGrammarOrder ==
    \A r \in Reqs :
        req[r].endpoint = "responses"
            => LET fs == req[r].frames
               IN  /\ Len(SelectSeq(fs, IsItemAdded)) <= 1
                   /\ \A i \in 1..Len(fs) :
                          /\ IsDelta(fs[i])
                                => \E j \in 1..(i - 1) : IsItemAdded(fs[j])
                          /\ fs[i].type = "response.done" => i = Len(fs)
                   /\ Completed(r)
                          => fs # <<>> /\ fs[Len(fs)].type = "response.done"

\* A completed Responses stream of an item, a text delta, an arguments
\* delta and response.done.
C27_Witness ==
    \E r \in Reqs :
        /\ req[r].endpoint = "responses" /\ Completed(r)
        /\ [i \in 1..Len(req[r].frames) |-> req[r].frames[i].type]
               = <<"response.output_item.added", "response.text.delta",
                   "response.function_call_arguments.delta", "response.done">>

\* The text of the response.text.delta frames of `fs`, joined in order.
RECURSIVE EmittedText(_)
EmittedText(fs) ==
    IF fs = <<>> THEN <<>>
    ELSE (IF Head(fs).type = "response.text.delta" THEN Head(fs).delta ELSE <<>>)
         \o EmittedText(Tail(fs))
IsTextDelta(f) == f.type = "response.text.delta"

\* C29: the record a streaming /v1/responses request has stored holds the
\* messages of the record its previous_response_id names, then its input
\* messages, then one assistant message whose content is the text of the
\* response.text.delta frames the wrapper yielded, joined in the order of
\* the frames; each of these frames carries the text of one chunk and there
\* are no more of them than chunks delivered.
C29_StoredReplyIsEmittedText ==
    \A r \in Reqs :
        (req[r].endpoint = "responses" /\ req[r].stream /\ req[r].created # <<>>)
            => LET id == req[r].created[1]
                   prev == req[r].previous_response_id
                   old == IF prev = NoId THEN <<>>
                          ELSE Lookup(states, prev).messages
                   deltas == SelectSeq(req[r].frames, IsTextDelta)
               IN  /\ Len(req[r].created) = 1
                   /\ id \in StoredIds(states)
                   /\ Lookup(states, id).messages =
                          old \o InputOf(r)
                              \o <<Msg("assistant", EmittedText(req[r].frames))>>
                   /\ Len(deltas) <= req[r].delivered
                   /\ \A i \in 1..Len(deltas) :
                          \E c \in ChunkKinds :
                              c.choices /\ c.content # <<>>
                                  /\ deltas[i].delta = c.content

\* A stream that continued the seeded conversation, emitted two text
\* fragments and was stored.
C29_Witness ==
    \E r \in Reqs :
        /\ req[r].endpoint = "responses" /\ req[r].stream
        /\ req[r].previous_response_id = SeedId
        /\ req[r].created # <<>>
        /\ EmittedText(req[r].frames) = <<"a", "b">>
        /\ Len(Lookup(states, req[r].created[1]).messages)
               = Len(SeedMessages) + Len(InputOf(r)) + 1

IsErrorFrame(f) == f.type = "response.error"

\* C30: a Responses stream whose translation raised has yielded exactly one
\* response.error frame, that frame carries the message of the exception
\* and is the last frame of the stream; once the wrapper has finished, the
\* request has one history record, with status 500, and the connection is
\* closed; the exception leaves the wrapper when the consumer asks for the
\* next frame, and the connection is closed by then. A stream that did not
\* raise has no response.error frame.
C30_ErrorFrameThenReraise ==
    \A r \in Reqs :
        (req[r].endpoint = "responses" /\ req[r].stream)
            => LET fs == req[r].frames
                   errors == SelectSeq(fs, IsErrorFrame)
               IN  /\ ~req[r].streaming_error
                          => errors = <<>> /\ req[r].raised # "error"
                   /\ req[r].streaming_error
                          => /\ Len(errors) = 1
                             /\ IsErrorFrame(fs[Len(fs)])
                             /\ req[r].exc \in Failures
                             /\ fs[Len(fs)].delta = <<req[r].exc>>
                             /\ req[r].raised = "error" => req[r].closes >= 1
                             /\ req[r].gen = "finished"
                                  => /\ req[r].closes = 1
                                     /\ Len(req[r].hist) = 1
                                     /\ req[r].hist[1].status_code = InternalError
                                     /\ ~req[r].cancelled
                                            => req[r].raised = "error"
                             /\ req[r].gen # "finished"
                                  => req[r].raised = "none" /\ req[r].hist = <<>>

\* A stream that yielded text, then failed with "bad chunk", and whose
\* exception left the wrapper.
C30_Witness ==
    \E r \in Reqs :
        /\ req[r].endpoint = "responses" /\ req[r].streaming_error
        /\ req[r].exc = "bad chunk"
        /\ req[r].raised = "error"
        /\ Len(req[r].frames) >= 3
        /\ req[r].hist # <<>>

\* The entries of `records` are in the order of their recording, the last
\* recorded first.
NewestFirst(records) ==
    \A i, j \in 1..Len(records) : i < j => records[i].id > records[j].id
IsRecord == \E status_code \in {Ok, InternalError}, ok \in BOOLEAN :
                RecordCall(status_code, ok)
IsList == \E limit \in Limits, offset \in Offsets : HistoryListCall(limit, offset)
\* What holds of the history whatever the writes do: its size, its order,
\* what record() evicts and what list() returns.
BoundedNewestFirst ==
    /\ Len(history'.records) <= MaxSize
    /\ NewestFirst(history'.records)
    /\ IsRecord
          => /\ history'.records[1].id = history.next
             /\ SubSeq(history'.records, 2, Len(history'.records))
                    = IF Len(history.records) = MaxSize
                      THEN SubSeq(history.records, 1, MaxSize - 1)
                      ELSE history.records
    /\ IsList
          => LET out == log'[1].result
                 args == log'[1].args
             IN  /\ out.total = Len(history.records)
                 /\ NewestFirst(out.records)
                 /\ args.offset = 0
                       => \/ out.records = history.records
                          \/ /\ Len(out.records) = args.limit
                             /\ out.records = SubSeq(history.records, 1, args.limit)

ProperPrefixShown(preview, key) ==
    \E k \in 0..(Len(key) - 1) : preview = SubSeq(key, 1, k) \o Dots
\* What was returned of an entry shows its key masked.
ShownMasked(item, key) ==
    /\ "key" \notin DOMAIN item
    /\ ProperPrefixShown(item.key_preview, key)

\* C32: the answer of GET /admin/apikeys and the answer of update_key show
\* every key as a preview that is a proper prefix of the key followed by
\* the dots, and have no field holding the key; only the answer of the
\* create_key call that made a key holds that key.
C32_KeysShownMaskedOnly ==
    log # <<>>
        => LET out == log[1].result
           IN  /\ log[1].op = "list"
                     => \A i \in 1..Len(out) :
                            ShownMasked(out[i],
                                IF i = 1 THEN ProxyApiKey ELSE auth.keys[i - 1].key)
               /\ (log[1].op = "update" /\ "key_preview" \in DOMAIN out)
                     => ShownMasked(out,
                            auth.keys[KeyIndex(auth.keys, log[1].args[1])].key)
               /\ log[1].op = "create"
                     => /\ out.key = auth.keys[Len(auth.keys)].key
                        /\ \A i \in 1..(Len(auth.keys) - 1) :
                               auth.keys[i].key # out.key

\* The tokens the key set accepts: PROXY_API_KEY and the keys of the
\* enabled entries.
AcceptedTokens(keys) ==
    {ProxyApiKey} \cup {keys[i].key : i \in {j \in 1..Len(keys) : keys[j].enabled}}
\* The header is "Bearer " followed by an accepted token.
ValidHeader(header, keys) ==
    header.present /\ \E token \in AcceptedTokens(keys) : header.text = Bearer \o token
\* Request r was turned away with 401 and has touched nothing.
TurnedAway(r) ==
    /\ req[r].pc = "done"
    /\ req[r].resp.kind = "http_exception"
    /\ req[r].resp.status = Unauthorized
    /\ ~Called(r)
    /\ req[r].hist = <<>> /\ req[r].created = <<>> /\ req[r].frames = <<>>

\* C28: a request on /v1/chat/completions, /v1/responses or /v1/models
\* passes verify_api_key if and only if its Authorization header is
\* "Bearer " followed by PROXY_API_KEY or by the key of an enabled entry;
\* any other request is answered 401 with the stores and the file as they
\* were, and never calls the upstream, the store or the history; a request
\* that was not let through never gets past idle in any other way.
C28_ServedOnlyWithValidKey ==
    [][\A r \in Reqs :
          /\ (auth.seen[r] = NotSeen /\ auth'.seen[r] # NotSeen)
                => /\ auth'.seen[r].passed
                          <=> ValidHeader(auth'.seen[r].header, auth.keys)
                   /\ ~auth'.seen[r].passed
                          => /\ TurnedAway(r)'
                             /\ UNCHANGED <<states, disk, history, nextId>>
          /\ (~auth'.seen[r].passed /\ req'[r].pc # "idle") => TurnedAway(r)'
       ]_vars

\* A request that presented the key of a disabled entry was answered 401.
C28_Witness ==
    \E r \in Reqs :
        /\ auth.seen[r].header = Header(Bearer \o KeyA)
        /\ auth.seen[r].path = "responses"
        /\ \E i \in 1..Len(auth.keys) :
               auth.keys[i].key = KeyA /\ ~auth.keys[i].enabled
        /\ TurnedAway(r)

IsDeleteKey(id) == \E ok \in BOOLEAN : DeleteKey(id, ok)
IsDisableKey(id) == \E ok \in BOOLEAN : UpdateKey(id, "false", ok)
IsEnableOrCreate ==
    \/ \E ok \in BOOLEAN : CreateKey(ok)
    \/ \E id \in KeyIds, ok \in BOOLEAN : UpdateKey(id, "true", ok)

\* C39: after delete_key(id) or update_key(id, enabled=False) on an entry
\* of the key set, the entry seeded from PROXY_API_KEY included, verify_key
\* does not accept the key of that entry; and no step other than enabling
\* or creating a key makes verify_key accept a token it did not accept.
C39_RevocationTakesEffect ==
    [][/\ \A id \in KeyIds :
             (KeyIndex(auth.keys, id) # 0 /\ (IsDeleteKey(id) \/ IsDisableKey(id)))
                 => ~VerifyKey(auth.keys[KeyIndex(auth.keys, id)].key, auth'.keys)
       /\ ~IsEnableOrCreate
             => AcceptedTokens(auth'.keys) \subseteq AcceptedTokens(auth.keys)]_vars

\* The message lists of up to MaxTurns messages.
Conversations == UNION {[1..n -> Turns] : n \in 1..MaxTurns}
IsPrefix(a, b) == Len(a) <= Len(b) /\ SubSeq(b, 1, Len(a)) = a

\* C33: the id returned for a message list is a function of the list; the
\* id of a conversation that got one more message is the id it had; and
\* a message list of which the conversation is no prefix and which is no
\* prefix of the conversation has another id.
C33_IdStableAndDistinct ==
    [][LET old == conversation.messages
           new == conversation'.messages
       IN  /\ conversation'.id = GenerateConversationId(new)
           /\ (old # <<>> /\ IsPrefix(old, new))
                  => conversation'.id = conversation.id
           /\ \A other \in Conversations :
                  (~IsPrefix(other, new) /\ ~IsPrefix(new, other))
                      => GenerateConversationId(other) # conversation'.id]_vars

\* C34: a request is streaming or collecting, has a frame, a stream
\* response, a JSON result or a conversation record of its own only if the
\* upstream answered exactly 200; after any other upstream status, 204
\* included, it is answered with the JSON error envelope carrying that
\* status, has no frame and has created no record.
C34_OnlyStatus200Produces ==
    \A r \in Reqs :
        /\ (\/ req[r].pc \in {"streaming", "collecting"}
            \/ req[r].resp.kind \in {"stream", "json"}
            \/ req[r].frames # <<>>
            \/ req[r].created # <<>>)
               => req[r].status_code = Ok
        /\ req[r].status_code \notin {0, Ok}
               => /\ req[r].pc = "done"
                  /\ req[r].resp.kind = "json_error"
                  /\ req[r].resp.status = req[r].status_code
                  /\ req[r].frames = <<>> /\ req[r].gen = "none"
                  /\ req[r].created = <<>>
                  /\ \A i \in 1..Len(createLog) : createLog[i] # r

\* A Responses request that asked for storage was answered 204 by the
\* upstream and got the error envelope with 204.
C34_Witness ==
    \E r \in Reqs :
        /\ req[r].endpoint = "responses" /\ req[r].store
        /\ req[r].status_code = 204
        /\ req[r].resp.kind = "json_error" /\ req[r].resp.status = 204
        /\ req[r].pc = "done"

\* The store after the step holds the records it held, and all that may
\* differ is the last_accessed of the record of `id` and its place.
OnlyTouched(id) ==
    \/ states' = states
    \/ /\ id \in StoredIds(states)
       /\ Len(states') = Len(states)
       /\ Others(states', id) = Others(states, id)
       /\ [Lookup(states', id) EXCEPT !.last_accessed = Lookup(states, id).last_accessed]
              = Lookup(states, id)

\* C35: no step of a /v1/responses request with store=false, streaming or
\* not and however it ends, adds a record to the store; all such a step
\* may change in the store is the last_accessed and the place of the record
\* its previous_response_id names.
C35_StoreFalseAddsNothing ==
    [][\A r \in Reqs :
          (/\ req'[r] # req[r]
           /\ req'[r].endpoint = "responses" /\ ~req'[r].store)
              => /\ OnlyTouched(req'[r].previous_response_id)
                 /\ req'[r].created = <<>>
                 /\ createLog' = createLog]_vars

\* A streamed request with store=false that continued the seeded
\* conversation has ended; the seeded record has moved behind a record
\* stored before.
C35_Witness ==
    \E r \in Reqs :
        /\ req[r].endpoint = "responses" /\ ~req[r].store /\ req[r].stream
        /\ req[r].previous_response_id = SeedId
        /\ StreamOver(r) /\ req[r].frames # <<>>
        /\ Len(states) = 2 /\ states[2].response_id = SeedId

\* Request r has called response_store.create in this step.
Creates(r) == req'[r].created # req[r].created

\* C36: a record the store holds keeps its messages, model, metadata and
\* created_at through every step of a request; a request that continues a
\* conversation and stores its turn makes a record under an id the store
\* did not hold, and the messages of the record it continued are a strict
\* prefix of the messages of the new record.
C36_StoredMessagesNeverChange ==
    [][/\ \A id \in StoredIds(states) :
             /\ id \in StoredIds(states')
             /\ [Lookup(states', id) EXCEPT
                    !.last_accessed = Lookup(states, id).last_accessed]
                    = Lookup(states, id)
       /\ \A r \in Reqs :
             Creates(r)
                 => LET new == req'[r].created[Len(req'[r].created)]
                        prev == req'[r].previous_response_id
                    IN  /\ new \notin StoredIds(states)
                        /\ new \in StoredIds(states')
                        /\ prev # NoId
                              => /\ new # prev
                                 /\ IsPrefix(Lookup(states, prev).messages,
                                             Lookup(states', new).messages)
                                 /\ Len(Lookup(states', new).messages)
                                        > Len(Lookup(states, prev).messages)]_vars

\* A conversation continued twice: the seeded record, the record of the
\* first turn and the record of the second are all held, each with its own
\* messages.
C36_Witness ==
    \E r, p \in Reqs :
        /\ r # p
        /\ req[r].created # <<>> /\ req[p].created # <<>>
        /\ req[r].previous_response_id = SeedId
        /\ req[p].previous_response_id = req[r].created[1]
        /\ Lookup(states, SeedId).messages = SeedMessages
        /\ IsPrefix(Lookup(states, req[r].created[1]).messages,
                    Lookup(states, req[p].created[1]).messages)
        /\ Len(states) = 3

\* The stream of r carries an event of the given type.
Emitted(r, type) ==
    \E i \in 1..Len(req[r].frames) : req[r].frames[i].type = type

PathOf(endpoint) ==
    IF endpoint = "responses" THEN "/v1/responses" ELSE "/v1/chat/completions"

\* C38: every history record written for a request carries the path of the
\* endpoint that handled it: /v1/responses for a request of the responses
\* handler, /v1/chat/completions for one of the chat handler.
C38_RecordCarriesOwnEndpoint ==
    \A r \in Reqs :
        \A i \in 1..Len(req[r].hist) :
            req[r].hist[i].endpoint = PathOf(req[r].endpoint)

\* The task is one the request models describe.
ValidTask(task) ==
    /\ ValidTitle(task.title)
    /\ task.status \in TaskStatus
    /\ task.priority \in TaskPriority

\* C40: after any creates, updates and patches the request models accept,
\* every task of the store has a title of 1 to 200 characters and a status
\* and a priority of its enum, and no list call, whatever its filter and its
\* sort key, has failed.
C40_TasksStayValid ==
    /\ \A i \in 1..Len(taskStore.tasks) : ValidTask(taskStore.tasks[i])
    /\ (log # <<>> /\ log[1].op = "list") => ~log[1].result.raised

C11_Witness ==
    \E r \in Reqs :
        /\ req[r].previous_response_id = InvalidId
        /\ req[r].resp.status = NotFound
        /\ req[r].resp.message = "Previous response ID not found: 0"
        /\ req[r].client = "none"
        /\ states = StoreCreate(<<>>, SeedId, SeedMessages)

====
